---- MODULE Spec2Model ----
(***************************************************************************)
(* Session / visibility / routing engine of the Live chat relay            *)
(* (src/server.js and its sibling revisions under src/unnamed).            *)
(*                                                                         *)
(* One action per socket.io event handler.  The handlers run to completion *)
(* on Node's single-threaded event loop, so every handler is one atomic    *)
(* step.  Strings are sequences of UTF-16 code units, so that lowercasing, *)
(* the mention regexp, whitespace splitting and sorting are computed as    *)
(* the JavaScript computes them.                                           *)
(*                                                                         *)
(* Not modelled: display metadata copied through unchanged (textColor, dp, *)
(* uid, email), timestamps (ts, lastSeen) and console logging.  The order  *)
(* in which one handler emits to DIFFERENT sockets (key order of the users *)
(* object) is fixed to ascending socket id: no client can observe it.      *)
(***************************************************************************)
EXTENDS Integers, Sequences, FiniteSets, TLC

\* ------------------------------------------------------------------------
\* Program constants
\* ------------------------------------------------------------------------
MAX_HISTORY == 8
MAX_PENDING == 100
MAX_TEXT == 10000

\* ------------------------------------------------------------------------
\* Strings: sequences of UTF-16 code units
\* ------------------------------------------------------------------------
S_empty == << >>
\* "@"
CH_AT == 64
\* "dm"
S_dm == <<100, 109>>
\* "Guest"
S_Guest == <<71, 117, 101, 115, 116>>
\* "al", "Al", "bo", "Bo"
S_al == <<97, 108>>
S_Al == <<65, 108>>
S_bo == <<98, 111>>
S_Bo == <<66, 111>>
\* "constructor", "__proto__"
S_constructor == <<99, 111, 110, 115, 116, 114, 117, 99, 116, 111, 114>>
S_proto == <<95, 95, 112, 114, 111, 116, 111, 95, 95>>
\* "hi"
S_hi == <<104, 105>>
\* "System"
S_System == <<83, 121, 115, 116, 101, 109>>
\* "al_bo_dm" and "bo_cy_dm", room names as dm-response builds them
S_room_al_bo == <<97, 108, 95, 98, 111, 95, 100, 109>>
S_room_bo_cy == <<98, 111, 95, 99, 121, 95, 100, 109>>
\* "@bo"
S_at_bo == <<64, 98, 111>>
\* "@Bo!" (punctuation is stripped from the candidate name)
S_at_Bo_bang == <<64, 66, 111, 33>>
\* "@bo dm"
S_at_bo_dm == <<64, 98, 111, 32, 100, 109>>
\* "@al @bo"
S_at_al_at_bo == <<64, 97, 108, 32, 64, 98, 111>>
\* "@constructor"
S_at_constructor == <<64>> \o S_constructor
\* "  " (only whitespace)
S_blank == <<32, 32>>

\* String.prototype.toLowerCase on the ASCII range
LowerUnit(ch) == IF ch >= 65 /\ ch <= 90 THEN ch + 32 ELSE ch
toLowerCase(s) == [i \in 1..Len(s) |-> LowerUnit(s[i])]

\* \s of a JavaScript regexp, ASCII range
IsSpace(ch) == ch \in {9, 10, 11, 12, 13, 32}

\* String.prototype.trim
RECURSIVE TrimLeft(_)
TrimLeft(s) == IF s # << >> /\ IsSpace(Head(s)) THEN TrimLeft(Tail(s)) ELSE s
RECURSIVE TrimRight(_)
TrimRight(s) ==
    IF s # << >> /\ IsSpace(s[Len(s)]) THEN TrimRight(SubSeq(s, 1, Len(s) - 1)) ELSE s
trim(s) == TrimRight(TrimLeft(s))

\* text.split(/\s+/): every maximal run of whitespace is one separator; a
\* text that starts or ends with whitespace yields an empty first or last token
RECURSIVE SplitFrom(_, _, _, _)
SplitFrom(s, i, cur, acc) ==
    IF i > Len(s) THEN Append(acc, cur)
    ELSE IF IsSpace(s[i])
         THEN IF i > 1 /\ IsSpace(s[i - 1])
              THEN SplitFrom(s, i + 1, cur, acc)
              ELSE SplitFrom(s, i + 1, << >>, Append(acc, cur))
         ELSE SplitFrom(s, i + 1, Append(cur, s[i]), acc)
splitWs(s) == SplitFrom(s, 1, << >>, << >>)

\* the class [A-Za-z0-9_\-\.] of the mention regexp
IsNameUnit(ch) ==
    \/ (ch >= 65 /\ ch <= 90)
    \/ (ch >= 97 /\ ch <= 122)
    \/ (ch >= 48 /\ ch <= 57)
    \/ ch \in {95, 45, 46}
\* tok.slice(1).replace(/[^A-Za-z0-9_\-\.]/g, "")
mentionRaw(tok) == SelectSeq(Tail(tok), IsNameUnit)

\* String(n) for a natural number
RECURSIVE Decimal(_)
Decimal(n) == IF n < 10 THEN <<48 + n>> ELSE Append(Decimal(n \div 10), 48 + (n % 10))

\* "Guest" + Math.floor(Math.random() * 10000)
GuestName(n) == S_Guest \o Decimal(n)

\* text.slice(0, 10000)
sliceText(s) == IF Len(s) > MAX_TEXT THEN SubSeq(s, 1, MAX_TEXT) ELSE s

\* arr.slice(-n)
sliceLast(arr, n) == IF Len(arr) > n THEN SubSeq(arr, Len(arr) - n + 1, Len(arr)) ELSE arr

\* ------------------------------------------------------------------------
\* State
\* ------------------------------------------------------------------------
VARIABLES
    sockets,          \* connected socket ids (the transport's view)
    users,            \* socket id -> [name, role, blocked, status]
    messages,         \* public history ring
    pendingMentions,  \* lowercase name -> queue of mention payloads
    pinned,           \* pinned public message, or Null
    reactions,        \* msgId -> (emoji -> set of names)
    dmRooms,          \* room -> ring of room messages (part_001, part_002)
    dmReactions,      \* room -> (msgId -> (emoji -> set of names)) (part_001)
    rooms,            \* socket.io adapter: room -> sockets that joined it
    badwords,         \* blocked words (part_000, part_003)
    timers,           \* texts of the scheduled system messages not yet sent
    nextId,           \* the next value uuidv4() returns
    out,              \* events emitted by the handler that ran last, in order
    last,             \* the event handled last and how its handler ended
    hist,             \* history variable of the property at hand
    watch             \* the events whose handlers the property observes

prog == <<sockets, users, messages, pendingMentions, pinned, reactions,
          dmRooms, dmReactions, rooms, badwords, timers, nextId>>
vars == <<prog, out, last, hist, watch>>

Null == [id |-> 0]
Roles == {"user", "admin"}

\* the live connections in the order the handlers' loops visit them
RECURSIVE SeqOf(_)
SeqOf(S) ==
    IF S = {} THEN << >>
    ELSE LET m == CHOOSE x \in S : \A y \in S : x <= y
         IN <<m>> \o SeqOf(S \ {m})

\* one emitted event
Ev(to, ev, id, data) == [to |-> to, ev |-> ev, id |-> id, data |-> data]

\* io.to(socketId).emit(ev, payload): only a connected socket receives
safeEmit(socks, sid, ev, id, data) ==
    IF sid \in socks THEN <<Ev(sid, ev, id, data)>> ELSE << >>

\* io.emit(ev, payload): every connected socket
RECURSIVE EmitAll(_, _, _, _)
EmitAll(ss, ev, id, data) ==
    IF ss = << >> THEN << >>
    ELSE <<Ev(Head(ss), ev, id, data)>> \o EmitAll(Tail(ss), ev, id, data)
ioEmit(socks, ev, id, data) == EmitAll(SeqOf(socks), ev, id, data)

broadcastUsers(socks) == ioEmit(socks, "users", 0, << >>)

Ids(ring) == [i \in 1..Len(ring) |-> ring[i].id]

\* sendHistory: the ring, then the pinned message when there is one
sendHistory(socks, sid, ring, pin) ==
    safeEmit(socks, sid, "chat-history", 0, Ids(ring))
    \o (IF pin # Null THEN safeEmit(socks, sid, "pinned", pin.id, << >>) ELSE << >>)

findSocketsByNameInsensitive(us, name) ==
    IF name = << >> THEN {}
    ELSE {sid \in DOMAIN us : toLowerCase(us[sid].name) = toLowerCase(name)}

\* "Admin (name)" badge: the shield emoji U+1F6E1 U+FE0F, " Admin (", name, ")"
AdminLabel(name) ==
    <<55357, 57057, 65039, 32, 65, 100, 109, 105, 110, 32, 40>> \o name \o <<41>>

createMsgObj(user, text, id) ==
    [id |-> id,
     name |-> IF user.role = "admin" THEN AdminLabel(user.name) ELSE user.name,
     rawName |-> user.name,
     text |-> text,
     role |-> user.role]

\* property names a plain object literal inherits from Object.prototype and
\* that a lowercased key can equal (the others contain capitals)
ObjectProtoKeys == {S_constructor, S_proto}
\* obj[key] of an object literal: an own entry, an inherited member, or undefined
Lookup(obj, key) ==
    IF key \in DOMAIN obj THEN "own"
    ELSE IF key \in ObjectProtoKeys THEN "inherited"
    ELSE "undefined"
\* Object.prototype.constructor is the function Object, whose length is 1;
\* Object.prototype.__proto__ is Object.prototype, which has no length
InheritedLengthTruthy(key) == key = S_constructor

\* map update obj[key] = val, adding the key when it is new
Put(obj, key, val) == [k \in DOMAIN obj \cup {key} |-> IF k = key THEN val ELSE obj[k]]
\* delete obj[key]
Del(obj, key) == [k \in DOMAIN obj \ {key} |-> obj[k]]

\* the ring append keeping the first entries instead of the last
pushMessageKeepFirst(ring, msg) ==
    LET pushed == Append(ring, msg)
    IN IF Len(pushed) > MAX_HISTORY THEN SubSeq(pushed, 1, MAX_HISTORY) ELSE pushed

\* the ring append that slices before it pushes
pushMessageSliceFirst(ring, msg) ==
    Append(IF Len(ring) > MAX_HISTORY THEN sliceLast(ring, MAX_HISTORY) ELSE ring, msg)

\* ring append of the chat message handler and of the scheduler
pushMessage(ring, msg) ==
    LET pushed == Append(ring, msg)
    IN IF Len(pushed) > MAX_HISTORY THEN sliceLast(pushed, MAX_HISTORY) ELSE pushed

\* the pending queue append keeping the first entries instead of the last
pushPendingKeepFirst(queue, payload) ==
    LET pushed == Append(queue, payload)
    IN IF Len(pushed) > MAX_PENDING THEN SubSeq(pushed, 1, MAX_PENDING) ELSE pushed

\* pending queue append with its cap
pushPending(queue, payload) ==
    LET pushed == Append(queue, payload)
    IN IF Len(pushed) > MAX_PENDING THEN sliceLast(pushed, MAX_PENDING) ELSE pushed

\* the block test with the sender's own block set left out
passesBlocksOneWay(user, recip) ==
    IF user.role # "admin" /\ recip.role # "admin"
    THEN ~(user.name \in recip.blocked)
    ELSE TRUE

\* the block test without the admin exemption
passesBlocksNoAdmin(user, recip) ==
    ~(user.name \in recip.blocked) /\ ~(recip.name \in user.blocked)

\* the block test of the fan-out loop: TRUE when recip gets the message
passesBlocks(user, recip) ==
    IF user.role # "admin" /\ recip.role # "admin"
    THEN ~(user.name \in recip.blocked) /\ ~(recip.name \in user.blocked)
    ELSE TRUE

RECURSIVE FanOut(_, _, _, _, _)
FanOut(socks, us, sids, user, msg) ==
    IF sids = << >> THEN << >>
    ELSE (IF passesBlocks(user, us[Head(sids)])
          THEN safeEmit(socks, Head(sids), "chat message", msg.id, << >>)
          ELSE << >>)
         \o FanOut(socks, us, Tail(sids), user, msg)

RECURSIVE EmitEach(_, _, _, _, _)
EmitEach(socks, sids, ev, id, data) ==
    IF sids = << >> THEN << >>
    ELSE safeEmit(socks, Head(sids), ev, id, data) \o EmitEach(socks, Tail(sids), ev, id, data)

\* the tokens.forEach of the chat message handler.  acc carries the pending
\* store, the emitted events, the next uuid, whether a TypeError ended the
\* loop, and a log of what was done for each person mention: the candidate
\* name, the store key, the mention's id, the connections found, whether the
\* mention was stored and how long the queue was before.
RECURSIVE ScanTokens(_, _, _, _, _, _, _)
ScanTokens(socks, us, user, text, msg, tokens, acc) ==
    IF acc.idx > Len(tokens) \/ acc.thrown THEN acc
    ELSE
      LET idx == acc.idx
          tok == tokens[idx]
          step == [acc EXCEPT !.idx = idx + 1]
      IN
      IF ~(tok # << >> /\ Head(tok) = CH_AT /\ Len(tok) > 1)
      THEN ScanTokens(socks, us, user, text, msg, tokens, step)
      ELSE
        LET raw == mentionRaw(tok)
            next == IF idx + 1 <= Len(tokens) /\ tokens[idx + 1] # << >>
                    THEN toLowerCase(tokens[idx + 1]) ELSE << >>
            sids == findSocketsByNameInsensitive(us, raw)
            lc == toLowerCase(raw)
            mid == acc.nid
        IN
        IF raw = << >> THEN ScanTokens(socks, us, user, text, msg, tokens, step)
        ELSE IF next = S_dm
        THEN ScanTokens(socks, us, user, text, msg, tokens,
                 [step EXCEPT !.out = @ \o EmitEach(socks, SeqOf(sids), "dm-invite", 0, user.name)])
        ELSE IF sids # {}
        THEN ScanTokens(socks, us, user, text, msg, tokens,
                 [step EXCEPT !.nid = mid + 1,
                              !.out = @ \o EmitEach(socks, SeqOf(sids), "mention", mid, <<msg.id>>),
                              !.log = Append(@, [raw |-> raw, key |-> lc, id |-> mid, to |-> sids,
                                                 queued |-> FALSE, qlen |-> 0])])
        ELSE IF Lookup(acc.pm, lc) = "inherited"
        THEN \* pendingMentions[lc] is an inherited member: .push is not a function
             [step EXCEPT !.nid = mid + 1, !.thrown = TRUE,
                          !.log = Append(@, [raw |-> raw, key |-> lc, id |-> mid, to |-> {},
                                             queued |-> FALSE, qlen |-> 0])]
        ELSE
          LET queue == IF Lookup(acc.pm, lc) = "own" THEN acc.pm[lc] ELSE << >>
              payload == [id |-> mid, from |-> user.name, text |-> text, rawMsgId |-> msg.id]
          IN ScanTokens(socks, us, user, text, msg, tokens,
                 [step EXCEPT !.nid = mid + 1,
                              !.pm = Put(acc.pm, lc, pushPending(queue, payload)),
                              !.log = Append(@, [raw |-> raw, key |-> lc, id |-> mid, to |-> {},
                                                 queued |-> TRUE, qlen |-> Len(queue)])])

\* what the handler that ran last was and how it ended: the event, the
\* socket, the outcome, the message id and the name it was about, and the
\* per-mention log of a chat message
Last(ev, c, res, id, name, log) ==
    [ev |-> ev, c |-> c, res |-> res, id |-> id, name |-> name, log |-> log]

\* The record of a handler's run.  out and last observe the program and are
\* no part of it; a handler of an event outside watch leaves the idle record,
\* so that states differing only in an unobserved emission are one state.
Idle == Last("-", 0, "ok", 0, << >>, << >>)
Obs(l, o) ==
    /\ last' = IF l.ev \in watch THEN l ELSE Idle
    /\ out' = IF l.ev \in watch THEN o ELSE << >>
    /\ watch' = watch

\* ------------------------------------------------------------------------
\* Initial state: the module-level stores of server.js
\* ------------------------------------------------------------------------
InitProg ==
    /\ sockets = {}
    /\ users = << >>
    /\ messages = << >>
    /\ pendingMentions = << >>
    /\ pinned = Null
    /\ reactions = << >>
    /\ dmRooms = << >>
    /\ dmReactions = << >>
    /\ rooms = << >>
    /\ badwords = {}
    /\ timers = << >>
    /\ nextId = 1
    /\ out = << >>
    /\ last = Idle

\* ------------------------------------------------------------------------
\* Handlers of src/server.js
\* ------------------------------------------------------------------------
\* io.on("connection"): install the guest identity, broadcast presence
Connect(c, g) ==
    /\ c \notin sockets
    /\ sockets' = sockets \cup {c}
    /\ users' = Put(users, c, [name |-> GuestName(g), role |-> "user",
                               blocked |-> {}, status |-> "online"])
    /\ Obs(Last("connection", c, "ok", 0, GuestName(g), << >>),
           broadcastUsers(sockets'))
    /\ UNCHANGED <<messages, pendingMentions, pinned, reactions, dmRooms, rooms,
                   badwords, dmReactions, timers, nextId>>

\* the join handler installing a new block set
JoinFresh(c, name, role) ==
    /\ c \in sockets /\ c \in DOMAIN users
    /\ LET old == users[c]
           me == [name |-> IF name # << >> THEN name ELSE old.name,
                  role |-> IF role # "" THEN role ELSE old.role,
                  blocked |-> {},
                  status |-> "online"]
           lc == toLowerCase(me.name)
           found == Lookup(pendingMentions, lc)
           hist0 == sendHistory(sockets, c, messages, pinned)
       IN
       /\ users' = [users EXCEPT ![c] = me]
       /\ IF found = "own" /\ Len(pendingMentions[lc]) > 0
          THEN /\ pendingMentions' = Del(pendingMentions, lc)
               /\ Obs(Last("join", c, "ok", 0, me.name, << >>),
                      hist0
                         \o [i \in 1..Len(pendingMentions[lc]) |->
                               Ev(c, "mention", pendingMentions[lc][i].id,
                                  <<pendingMentions[lc][i].rawMsgId>>)]
                         \o broadcastUsers(sockets))
          ELSE IF found = "inherited" /\ InheritedLengthTruthy(lc)
          THEN \* Object.forEach is not a function: the catch ends the handler
               /\ pendingMentions' = pendingMentions
               /\ Obs(Last("join", c, "thrown", 0, me.name, << >>),
                      hist0)
          ELSE /\ pendingMentions' = pendingMentions
               /\ Obs(Last("join", c, "ok", 0, me.name, << >>),
                      hist0 \o broadcastUsers(sockets))
    /\ UNCHANGED <<sockets, messages, pinned, reactions, dmRooms, rooms,
                   badwords, dmReactions, timers, nextId>>

\* socket.on("join"): name and role are the payload's; an empty name or role
\* is a missing (falsy) field
Join(c, name, role) ==
    /\ c \in sockets /\ c \in DOMAIN users
    /\ LET old == users[c]
           me == [name |-> IF name # << >> THEN name ELSE old.name,
                  role |-> IF role # "" THEN role ELSE old.role,
                  blocked |-> old.blocked,
                  status |-> "online"]
           lc == toLowerCase(me.name)
           found == Lookup(pendingMentions, lc)
           hist0 == sendHistory(sockets, c, messages, pinned)
       IN
       /\ users' = [users EXCEPT ![c] = me]
       /\ IF found = "own" /\ Len(pendingMentions[lc]) > 0
          THEN /\ pendingMentions' = Del(pendingMentions, lc)
               /\ Obs(Last("join", c, "ok", 0, me.name, << >>),
                      hist0
                         \o [i \in 1..Len(pendingMentions[lc]) |->
                               Ev(c, "mention", pendingMentions[lc][i].id,
                                  <<pendingMentions[lc][i].rawMsgId>>)]
                         \o broadcastUsers(sockets))
          ELSE IF found = "inherited" /\ InheritedLengthTruthy(lc)
          THEN \* Object.forEach is not a function: the catch ends the handler
               /\ pendingMentions' = pendingMentions
               /\ Obs(Last("join", c, "thrown", 0, me.name, << >>),
                      hist0)
          ELSE /\ pendingMentions' = pendingMentions
               /\ Obs(Last("join", c, "ok", 0, me.name, << >>),
                      hist0 \o broadcastUsers(sockets))
    /\ UNCHANGED <<sockets, messages, pinned, reactions, dmRooms, rooms,
                   badwords, dmReactions, timers, nextId>>

\* the chat message handler that emits the message before once more after
\* the new one
ChatMessageReplay(c, text) ==
    /\ c \in sockets /\ c \in DOMAIN users
    /\ LET user == users[c] IN
       IF text = << >> \/ trim(text) = << >>
       THEN /\ Obs(Last("chat message", c, "ignored", 0, << >>, << >>),
                   << >>)
            /\ UNCHANGED <<messages, pendingMentions, nextId>>
       ELSE
         LET msg == createMsgObj(user, sliceText(text), nextId)
             acc == ScanTokens(sockets, users, user, text, msg, splitWs(text),
                               [idx |-> 1, pm |-> pendingMentions, out |-> << >>,
                                nid |-> nextId + 1, thrown |-> FALSE, log |-> << >>])
         IN
         /\ messages' = pushMessage(messages, msg)
         /\ pendingMentions' = acc.pm
         /\ nextId' = acc.nid
         /\ Obs(Last("chat message", c, IF acc.thrown THEN "thrown" ELSE "ok",
                         msg.id, << >>, acc.log),
                IF acc.thrown THEN acc.out
                   ELSE acc.out \o FanOut(sockets, users, SeqOf(DOMAIN users), user, msg)
                        \o (IF messages # << >>
                            THEN FanOut(sockets, users, SeqOf(DOMAIN users), user,
                                        messages[Len(messages)])
                            ELSE << >>))
    /\ UNCHANGED <<sockets, users, pinned, reactions, dmRooms, rooms, badwords, dmReactions, timers>>

\* socket.on("chat message") with a string payload
ChatMessage(c, text) ==
    /\ c \in sockets /\ c \in DOMAIN users
    /\ LET user == users[c] IN
       IF text = << >> \/ trim(text) = << >>
       THEN /\ Obs(Last("chat message", c, "ignored", 0, << >>, << >>),
                   << >>)
            /\ UNCHANGED <<messages, pendingMentions, nextId>>
       ELSE
         LET msg == createMsgObj(user, sliceText(text), nextId)
             acc == ScanTokens(sockets, users, user, text, msg, splitWs(text),
                               [idx |-> 1, pm |-> pendingMentions, out |-> << >>,
                                nid |-> nextId + 1, thrown |-> FALSE, log |-> << >>])
         IN
         /\ messages' = pushMessage(messages, msg)
         /\ pendingMentions' = acc.pm
         /\ nextId' = acc.nid
         /\ Obs(Last("chat message", c, IF acc.thrown THEN "thrown" ELSE "ok",
                         msg.id, << >>, acc.log),
                IF acc.thrown THEN acc.out
                   ELSE acc.out \o FanOut(sockets, users, SeqOf(DOMAIN users), user, msg))
    /\ UNCHANGED <<sockets, users, pinned, reactions, dmRooms, rooms, badwords, dmReactions, timers>>

\* the delete handler without its permission test
DeleteUnchecked(c, msgId) ==
    /\ c \in sockets /\ c \in DOMAIN users
    /\ messages' = SelectSeq(messages, LAMBDA m : m.id # msgId)
    /\ reactions' = IF \E i \in 1..Len(messages) : messages[i].id = msgId
                    THEN Del(reactions, msgId) ELSE reactions
    /\ Obs(Last("delete", c, "ok", msgId, << >>, << >>),
           ioEmit(sockets, "delete", msgId, << >>))
    /\ UNCHANGED <<sockets, users, pendingMentions, pinned, dmRooms, rooms,
                   badwords, dmReactions, timers, nextId>>

\* the delete handler that keeps quiet when the message is not in the ring
DeleteSilentMiss(c, msgId) ==
    /\ c \in sockets /\ c \in DOMAIN users
    /\ LET user == users[c]
           hits == {i \in 1..Len(messages) : messages[i].id = msgId}
       IN
       IF hits = {}
       THEN /\ Obs(Last("delete", c, "miss", msgId, << >>, << >>), << >>)
            /\ UNCHANGED <<messages, reactions>>
       ELSE
         LET idx == CHOOSE i \in hits : \A j \in hits : i <= j
             m == messages[idx]
         IN
         IF user.role = "admin" \/ m.rawName = user.name
         THEN /\ messages' = SubSeq(messages, 1, idx - 1)
                             \o SubSeq(messages, idx + 1, Len(messages))
              /\ reactions' = Del(reactions, msgId)
              /\ Obs(Last("delete", c, "ok", msgId, m.rawName, << >>),
                     ioEmit(sockets, "delete", msgId, << >>))
         ELSE /\ Obs(Last("delete", c, "denied", msgId, m.rawName, << >>),
                     safeEmit(sockets, c, "system", 0, << >>))
              /\ UNCHANGED <<messages, reactions>>
    /\ UNCHANGED <<sockets, users, pendingMentions, pinned, dmRooms, rooms,
                   badwords, dmReactions, timers, nextId>>

\* socket.on("delete"): msgId 0 stands for a missing msgId
Delete(c, msgId) ==
    /\ c \in sockets /\ c \in DOMAIN users
    /\ LET user == users[c]
           hits == {i \in 1..Len(messages) : messages[i].id = msgId}
       IN
       IF hits = {}
       THEN /\ Obs(Last("delete", c, "miss", msgId, << >>, << >>),
                   ioEmit(sockets, "delete", msgId, << >>))
            /\ UNCHANGED <<messages, reactions>>
       ELSE
         LET idx == CHOOSE i \in hits : \A j \in hits : i <= j
             m == messages[idx]
         IN
         IF user.role = "admin" \/ m.rawName = user.name
         THEN /\ messages' = SubSeq(messages, 1, idx - 1)
                             \o SubSeq(messages, idx + 1, Len(messages))
              /\ reactions' = Del(reactions, msgId)
              /\ Obs(Last("delete", c, "ok", msgId, m.rawName, << >>),
                     ioEmit(sockets, "delete", msgId, << >>))
         ELSE /\ Obs(Last("delete", c, "denied", msgId, m.rawName, << >>),
                     safeEmit(sockets, c, "system", 0, << >>))
              /\ UNCHANGED <<messages, reactions>>
    /\ UNCHANGED <<sockets, users, pendingMentions, pinned, dmRooms, rooms,
                   badwords, dmReactions, timers, nextId>>

\* the block handler without the reciprocal entries
BlockOwnOnly(c, target) ==
    /\ c \in sockets /\ c \in DOMAIN users
    /\ IF target = << >>
       THEN /\ users' = users
            /\ Obs(Last("block", c, "ignored", 0, target, << >>),
                   << >>)
       ELSE /\ users' = [users EXCEPT ![c].blocked = @ \cup {target}]
            /\ Obs(Last("block", c, "ok", 0, target, << >>),
                   safeEmit(sockets, c, "blocklist", 0, << >>) \o broadcastUsers(sockets))
    /\ UNCHANGED <<sockets, messages, pendingMentions, pinned, reactions, dmRooms,
                   rooms, badwords, dmReactions, timers, nextId>>

\* socket.on("block"): an empty target is a missing (falsy) one
Block(c, target) ==
    /\ c \in sockets /\ c \in DOMAIN users
    /\ IF target = << >>
       THEN /\ users' = users
            /\ Obs(Last("block", c, "ignored", 0, target, << >>),
                   << >>)
       ELSE
         LET user == users[c]
             mine == [users EXCEPT ![c].blocked = @ \cup {target}]
             both == [sid \in DOMAIN mine |->
                        IF mine[sid].name = target
                        THEN [mine[sid] EXCEPT !.blocked = @ \cup {user.name}]
                        ELSE mine[sid]]
         IN
         /\ users' = both
         /\ Obs(Last("block", c, "ok", 0, target, << >>),
                safeEmit(sockets, c, "blocklist", 0, << >>) \o broadcastUsers(sockets))
    /\ UNCHANGED <<sockets, messages, pendingMentions, pinned, reactions, dmRooms,
                   rooms, badwords, dmReactions, timers, nextId>>

\* socket.on("unblock")
Unblock(c, target) ==
    /\ c \in sockets /\ c \in DOMAIN users
    /\ LET user == users[c]
           mine == [users EXCEPT ![c].blocked = @ \ {target}]
           both == [sid \in DOMAIN mine |->
                      IF mine[sid].name = target
                      THEN [mine[sid] EXCEPT !.blocked = @ \ {user.name}]
                      ELSE mine[sid]]
       IN
       /\ users' = both
       /\ Obs(Last("unblock", c, "ok", 0, target, << >>),
              safeEmit(sockets, c, "blocklist", 0, << >>) \o broadcastUsers(sockets))
    /\ UNCHANGED <<sockets, messages, pendingMentions, pinned, reactions, dmRooms,
                   rooms, badwords, dmReactions, timers, nextId>>

\* reactionSummary on the emoji map of one message: the size of every set
reactionSummary(map) == [e \in DOMAIN map |-> Cardinality(map[e])]
\* name in emojiSet ? delete : add
Toggle(emojiSet, name) ==
    IF name \in emojiSet THEN emojiSet \ {name} ELSE emojiSet \cup {name}

\* the reaction handler sending the detail to every connection
ReactionDetailAll(c, msgId, emoji) ==
    /\ c \in sockets /\ c \in DOMAIN users
    /\ IF msgId = 0 \/ emoji = << >>
       THEN /\ reactions' = reactions
            /\ Obs(Last("reaction", c, "ignored", msgId, emoji, << >>),
                   << >>)
       ELSE IF emoji \in ObjectProtoKeys
       THEN /\ reactions' = IF msgId \in DOMAIN reactions THEN reactions
                            ELSE Put(reactions, msgId, << >>)
            /\ Obs(Last("reaction", c, "thrown", msgId, emoji, << >>),
                   << >>)
       ELSE
         LET user == users[c]
             slot == IF msgId \in DOMAIN reactions THEN reactions[msgId] ELSE << >>
             emojiSet == IF emoji \in DOMAIN slot THEN slot[emoji] ELSE {}
             toggled == Toggle(emojiSet, user.name)
         IN
         /\ reactions' = Put(reactions, msgId, Put(slot, emoji, toggled))
         /\ Obs(Last("reaction", c, "ok", msgId, emoji, << >>),
                ioEmit(sockets, "reaction", msgId,
                       reactionSummary(Put(slot, emoji, toggled)))
                   \o EmitEach(sockets, SeqOf(DOMAIN users), "reaction-detail", msgId,
                               Put(slot, emoji, toggled)))
    /\ UNCHANGED <<sockets, users, messages, pendingMentions, pinned, dmRooms, rooms,
                   badwords, dmReactions, timers, nextId>>

\* socket.on("reaction"): toggle the sender's name in the (msgId, emoji) set.
\* The slot of the message is an object literal: for an emoji that names a
\* member it inherits, the lookup yields that member and .has throws after
\* ensureReactionSlot has run.
Reaction(c, msgId, emoji) ==
    /\ c \in sockets /\ c \in DOMAIN users
    /\ IF msgId = 0 \/ emoji = << >>
       THEN /\ reactions' = reactions
            /\ Obs(Last("reaction", c, "ignored", msgId, emoji, << >>),
                   << >>)
       ELSE IF emoji \in ObjectProtoKeys
       THEN /\ reactions' = IF msgId \in DOMAIN reactions THEN reactions
                            ELSE Put(reactions, msgId, << >>)
            /\ Obs(Last("reaction", c, "thrown", msgId, emoji, << >>),
                   << >>)
       ELSE
         LET user == users[c]
             slot == IF msgId \in DOMAIN reactions THEN reactions[msgId] ELSE << >>
             emojiSet == IF emoji \in DOMAIN slot THEN slot[emoji] ELSE {}
             toggled == Toggle(emojiSet, user.name)
             admins == {sid \in DOMAIN users : users[sid].role = "admin"}
         IN
         /\ reactions' = Put(reactions, msgId, Put(slot, emoji, toggled))
         /\ Obs(Last("reaction", c, "ok", msgId, emoji, << >>),
                ioEmit(sockets, "reaction", msgId,
                       reactionSummary(Put(slot, emoji, toggled)))
                   \o EmitEach(sockets, SeqOf(admins), "reaction-detail", msgId,
                               Put(slot, emoji, toggled)))
    /\ UNCHANGED <<sockets, users, messages, pendingMentions, pinned, dmRooms, rooms,
                   badwords, dmReactions, timers, nextId>>

\* the pin handler without its role test
PinAnyone(c, msgId) ==
    /\ c \in sockets /\ c \in DOMAIN users
    /\ LET hits == {i \in 1..Len(messages) : messages[i].id = msgId} IN
       IF hits = {}
       THEN /\ pinned' = pinned
            /\ Obs(Last("pin", c, "miss", msgId, << >>, << >>), << >>)
       ELSE /\ pinned' = messages[CHOOSE i \in hits : \A j \in hits : i <= j]
            /\ Obs(Last("pin", c, "ok", msgId, << >>, << >>),
                   ioEmit(sockets, "pinned", msgId, << >>))
    /\ UNCHANGED <<sockets, users, messages, pendingMentions, reactions, dmRooms, rooms,
                   badwords, dmReactions, timers, nextId>>

\* the pin handler that keeps the message pinned first
PinKeepFirst(c, msgId) ==
    /\ c \in sockets /\ c \in DOMAIN users
    /\ LET hits == {i \in 1..Len(messages) : messages[i].id = msgId} IN
       IF users[c].role # "admin"
       THEN /\ pinned' = pinned
            /\ Obs(Last("pin", c, "denied", msgId, << >>, << >>), << >>)
       ELSE IF hits = {}
       THEN /\ pinned' = pinned
            /\ Obs(Last("pin", c, "miss", msgId, << >>, << >>), << >>)
       ELSE /\ pinned' = IF pinned = Null
                         THEN messages[CHOOSE i \in hits : \A j \in hits : i <= j]
                         ELSE pinned
            /\ Obs(Last("pin", c, "ok", msgId, << >>, << >>),
                   ioEmit(sockets, "pinned", msgId, << >>))
    /\ UNCHANGED <<sockets, users, messages, pendingMentions, reactions, dmRooms, rooms,
                   badwords, dmReactions, timers, nextId>>

\* socket.on("pin"): admin only, and only a message that is in the ring
Pin(c, msgId) ==
    /\ c \in sockets /\ c \in DOMAIN users
    /\ LET hits == {i \in 1..Len(messages) : messages[i].id = msgId} IN
       IF users[c].role # "admin"
       THEN /\ pinned' = pinned
            /\ Obs(Last("pin", c, "denied", msgId, << >>, << >>),
                   << >>)
       ELSE IF hits = {}
       THEN /\ pinned' = pinned
            /\ Obs(Last("pin", c, "miss", msgId, << >>, << >>),
                   << >>)
       ELSE /\ pinned' = messages[CHOOSE i \in hits : \A j \in hits : i <= j]
            /\ Obs(Last("pin", c, "ok", msgId, << >>, << >>),
                   ioEmit(sockets, "pinned", msgId, << >>))
    /\ UNCHANGED <<sockets, users, messages, pendingMentions, reactions, dmRooms, rooms,
                   badwords, dmReactions, timers, nextId>>

\* socket.on("get-history")
GetHistory(c) ==
    /\ c \in sockets
    /\ Obs(Last("get-history", c, "ok", 0, << >>, << >>),
           sendHistory(sockets, c, messages, pinned))
    /\ UNCHANGED prog

\* the disconnect handler marking the identity offline and keeping it
DisconnectKeep(c) ==
    /\ c \in sockets
    /\ sockets' = sockets \ {c}
    /\ rooms' = [r \in DOMAIN rooms |-> rooms[r] \ {c}]
    /\ IF c \in DOMAIN users
       THEN /\ users' = [users EXCEPT ![c].status = "offline"]
            /\ Obs(Last("disconnect", c, "ok", 0, << >>, << >>),
                   broadcastUsers(sockets'))
       ELSE /\ users' = users
            /\ Obs(Last("disconnect", c, "ok", 0, << >>, << >>),
                   << >>)
    /\ UNCHANGED <<messages, pendingMentions, pinned, reactions, dmRooms, badwords, dmReactions,
                   timers, nextId>>

\* socket.on("disconnect"); the transport also takes the socket out of its rooms
Disconnect(c) ==
    /\ c \in sockets
    /\ sockets' = sockets \ {c}
    /\ rooms' = [r \in DOMAIN rooms |-> rooms[r] \ {c}]
    /\ IF c \in DOMAIN users
       THEN /\ users' = Del(users, c)
            /\ Obs(Last("disconnect", c, "ok", 0, << >>, << >>),
                   broadcastUsers(sockets'))
       ELSE /\ users' = users
            /\ Obs(Last("disconnect", c, "ok", 0, << >>, << >>),
                   << >>)
    /\ UNCHANGED <<messages, pendingMentions, pinned, reactions, dmRooms, badwords, dmReactions,
                   timers, nextId>>

\* ------------------------------------------------------------------------
\* Spec: visibility of public messages under blocks (server.js).  Two sockets
\* connect, join as al or bo (the second one as admin too, and back), block,
\* unblock and disconnect in every order, and send until the ids are used
\* up.  A chat message changes no identity and no block set, so a send after
\* every prefix of the other events meets every block state.
\* ------------------------------------------------------------------------
\* ids uuidv4() hands out before the run ends
MaxIds == 1
\* the numbers Math.random() gives the guest names
GuestNumbers == {0}

\* hist follows one block request, chosen freely among those a non-admin
\* sends: c the socket that sent it, A its name then, B the name it blocked.
\*   conn: since the request c has stayed connected, c has not sent
\*         unblock(B) and no connection named B has sent unblock(c's name)
\*   name: since the request no connection named A has sent unblock(B) and
\*         none named B has sent unblock(A)
NoBlock == [c |-> 0, A |-> << >>, B |-> << >>, conn |-> FALSE, name |-> FALSE]
Norm(h) ==
    IF ~h.conn /\ ~h.name THEN NoBlock
    ELSE IF ~h.conn THEN [h EXCEPT !.c = 0]
    ELSE h
OnBlock(c, target, track) ==
    IF track /\ target # << >> /\ users[c].role # "admin"
    THEN [c |-> c, A |-> users[c].name, B |-> target, conn |-> TRUE, name |-> TRUE]
    ELSE hist
OnUnblock(c, target) ==
    LET me == users[c].name
        connEnds == /\ hist.conn
                    /\ \/ c = hist.c /\ target = hist.B
                       \/ me = hist.B /\ target = users[hist.c].name
        nameEnds == /\ hist.name
                    /\ \/ me = hist.A /\ target = hist.B
                       \/ me = hist.B /\ target = hist.A
    IN Norm([hist EXCEPT !.conn = @ /\ ~connEnds, !.name = @ /\ ~nameEnds])
OnDisconnect(c) ==
    Norm([hist EXCEPT !.conn = @ /\ c # hist.c])

Alive == nextId <= MaxIds

Init == InitProg /\ hist = NoBlock /\ watch = {"chat message"}

Next ==
    \/ \E c \in {1, 2}, g \in GuestNumbers :
          Alive /\ Connect(c, g) /\ hist' = hist
    \/ \E c \in {1, 2}, n \in {S_al, S_bo}, r \in {"", "user", "admin"} :
          Alive /\ (r = "admin" => c = 2) /\ Join(c, n, r) /\ hist' = hist
    \/ \E c \in {1, 2}, t \in {S_hi, S_at_constructor} :
          Alive /\ ChatMessage(c, t) /\ hist' = hist
    \/ \E c \in {1, 2}, t \in {S_al, S_bo}, track \in BOOLEAN :
          Alive /\ Block(c, t) /\ hist' = OnBlock(c, t, track)
    \/ \E c \in {1, 2}, t \in {S_al, S_bo} :
          Alive /\ Unblock(c, t) /\ hist' = OnUnblock(c, t)
    \/ \E c \in {1, 2} :
          Alive /\ Disconnect(c) /\ hist' = OnDisconnect(c)

Spec == Init /\ [][Next]_vars

\* the 'chat message' event of the public message sent last reached socket r
Got(r) == \E i \in 1..Len(out) : out[i] = Ev(r, "chat message", last.id, << >>)
\* the handler that ran last is a public send that reached its fan-out
Sent == last.ev = "chat message" /\ last.res = "ok"
NonAdminNamed(n) == {r \in DOMAIN users : users[r].name = n /\ users[r].role # "admin"}

\* C1 (as amended): once a non-admin connection a has sent block(B), as long
\* as a stays connected, a has not sent unblock(B) and no connection named B
\* has sent unblock(a's name), a public message a sends while not an admin
\* reaches no non-admin connection named B, and one a non-admin connection
\* named B sends does not reach a while a is not an admin.
C1_BlockHidesWhileConnected ==
    (Sent /\ hist.conn /\ users[hist.c].role # "admin") =>
        /\ last.c = hist.c => \A r \in NonAdminNamed(hist.B) : ~Got(r)
        /\ last.c \in NonAdminNamed(hist.B) => ~Got(hist.c)

\* a followed block is in force, a non-admin connection named B is live beside
\* the blocker, the blocker sends, and the others connected get the message
C1_Witness ==
    /\ Sent /\ hist.conn /\ last.c = hist.c /\ users[hist.c].role # "admin"
    /\ NonAdminNamed(hist.B) \ {hist.c} # {}
    /\ \A r \in DOMAIN users \ NonAdminNamed(hist.B) : Got(r)

\* C1 (as stated): once a non-admin connection named A has sent block(B),
\* until a connection named A or B sends the matching unblock, no non-admin
\* connection named B receives a public message of a connection named A and
\* no connection named A receives one of a connection named B, the parties
\* disconnecting and reconnecting under the same names included.
C1_BlockHidesByName ==
    (Sent /\ hist.name /\ users[last.c].role # "admin") =>
        /\ users[last.c].name = hist.A => \A r \in NonAdminNamed(hist.B) : ~Got(r)
        /\ users[last.c].name = hist.B => \A r \in NonAdminNamed(hist.A) : ~Got(r)

\* C2: in the public fan-out, a recipient gets the 'chat message' event
\* whenever the sender or the recipient is an admin at send time, whatever
\* the two block sets hold.
C2_AdminAlwaysDelivered ==
    Sent => \A r \in DOMAIN users :
               (users[last.c].role = "admin" \/ users[r].role = "admin") => Got(r)

\* an admin and another connection whose block sets name each other, and the
\* message one of them sent reached the other
C2_Witness ==
    /\ Sent
    /\ \E r \in DOMAIN users \ {last.c} :
          /\ users[last.c].role = "admin" \/ users[r].role = "admin"
          /\ users[last.c].name \in users[r].blocked
          /\ users[r].name \in users[last.c].blocked
          /\ Got(r)

\* ------------------------------------------------------------------------
\* SpecMention: mentions of live and of absent names (server.js).  Two
\* sockets connect, join as bo, Bo or constructor, send texts that mention
\* bo, Bo, al and constructor or invite bo, and disconnect.
\* ------------------------------------------------------------------------
\* ids uuidv4() has handed out when the last public message starts
MaxMentionIds == 3

\* hist.owed: <<n, id>> for every mention with id `id` of the lowercase name
\*   n that was sent while no live connection matched n and after which no
\*   connection has joined under a name matching n
\* hist.due: the ids of hist.owed for the name of the join that ran last
NoLiveMatch(log) ==
    {<<toLowerCase(log[i].raw), log[i].id>> :
        i \in {j \in 1..Len(log) : findSocketsByNameInsensitive(users, log[j].raw) = {}}}
OwedOnSend == [owed |-> hist.owed \cup NoLiveMatch(last'.log), due |-> {}]
OwedOnJoin ==
    LET lc == toLowerCase(last'.name)
    IN [owed |-> {p \in hist.owed : p[1] # lc},
        due |-> {p[2] : p \in {q \in hist.owed : q[1] = lc}}]
OwedOnOther == [hist EXCEPT !.due = {}]

InitMention == InitProg /\ hist = [owed |-> {}, due |-> {}]
                        /\ watch = {"chat message", "join"}

NextMention ==
    \/ \E c \in {1, 2}, g \in GuestNumbers : Connect(c, g) /\ hist' = OwedOnOther
    \/ \E c \in {1, 2}, n \in {S_bo, S_Bo, S_constructor} :
          Join(c, n, "") /\ hist' = OwedOnJoin
    \/ \E c \in {1, 2}, t \in {S_at_Bo_bang, S_at_bo_dm, S_at_al_at_bo, S_at_constructor} :
          nextId <= MaxMentionIds /\ ChatMessage(c, t) /\ hist' = OwedOnSend
    \/ \E c \in {1, 2} : Disconnect(c) /\ hist' = OwedOnOther

SpecMention == InitMention /\ [][NextMention]_vars

MentionEvents(id) == {i \in 1..Len(out) : out[i].ev = "mention" /\ out[i].id = id}

\* C3: a mention of a name no live connection matches is delivered exactly
\* once, in the next join under a matching name and to the joining
\* connection only; that join delivers no mention that is not owed to the
\* name, and after it the pending store has no entry for the lowercase name.
C3_OfflineMentionOnceAtNextJoin ==
    last.ev = "join" =>
        /\ \A id \in hist.due :
              /\ Cardinality(MentionEvents(id)) = 1
              /\ \A i \in MentionEvents(id) : out[i].to = last.c
        /\ \A i \in 1..Len(out) : out[i].ev = "mention" => out[i].id \in hist.due
        /\ toLowerCase(last.name) \notin DOMAIN pendingMentions

\* the pending queue of lowercase name n holds the mention with this id
Queued(n, id) ==
    /\ n \in DOMAIN pendingMentions
    /\ \E i \in 1..Len(pendingMentions[n]) : pendingMentions[n][i].id = id

\* C4: every person mention of a public message is either delivered to every
\* live connection whose name matches and not queued, or, when none matches,
\* delivered to no one and queued under the lowercase name: never both and
\* never neither.
C4_DeliveredXorQueued ==
    (last.ev = "chat message" /\ last.res # "ignored") =>
        \A k \in 1..Len(last.log) :
            LET e == last.log[k]
                live == findSocketsByNameInsensitive(users, e.raw)
            IN IF live # {}
               THEN /\ \A sid \in live : Ev(sid, "mention", e.id, <<last.id>>) \in
                                            {out[i] : i \in 1..Len(out)}
                    /\ ~Queued(toLowerCase(e.raw), e.id)
               ELSE /\ MentionEvents(e.id) = {}
                    /\ Queued(toLowerCase(e.raw), e.id)

\* ------------------------------------------------------------------------
\* Handlers of src/unnamed/part_000, an earlier revision: the guest name is
\* "Guest", names are matched exactly, the pending store is keyed by the
\* name as written and capped at 50, and a text with a bad word ends the
\* sender's connection.
\* ------------------------------------------------------------------------
MAX_PENDING_V0 == 50

findSocketsByName(us, name) == {sid \in DOMAIN us : us[sid].name = name}

\* String.prototype.includes
Includes(t, w) == \E i \in 0..(Len(t) - Len(w)) : SubSeq(t, i + 1, i + Len(w)) = w
containsBadword(bw, text) ==
    text # << >> /\ \E w \in bw : w # << >> /\ Includes(toLowerCase(text), w)

\* handleMention: deliver to the connections named targetName, or store.
\* Its own try/catch swallows the TypeError of a key the store inherits.
\* ts is the payload's timestamp.
handleMention(socks, us, pm, targetName, fromName, text, ts) ==
    LET found == findSocketsByName(us, targetName)
        payload == [from |-> fromName, text |-> text, ts |-> ts]
        queue == IF Lookup(pm, targetName) = "own" THEN pm[targetName] ELSE << >>
        pushed == Append(queue, payload)
        entry == [raw |-> targetName, key |-> targetName, id |-> 0, to |-> found,
                  queued |-> FALSE, qlen |-> Len(queue)]
    IN IF found # {}
       THEN [pm |-> pm, out |-> EmitEach(socks, SeqOf(found), "mention", 0, <<ts>>),
             log |-> entry]
       ELSE IF Lookup(pm, targetName) = "inherited"
       THEN [pm |-> pm, out |-> << >>, log |-> entry]
       ELSE [pm |-> Put(pm, targetName,
                        IF Len(pushed) > MAX_PENDING_V0
                        THEN sliceLast(pushed, MAX_PENDING_V0) ELSE pushed),
             out |-> << >>,
             log |-> [entry EXCEPT !.queued = TRUE]]

sendDmInvite(socks, us, toName, fromName) ==
    EmitEach(socks, SeqOf(findSocketsByName(us, toName)), "dm-invite", 0, fromName)

RECURSIVE ScanTokensV0(_, _, _, _, _, _, _)
ScanTokensV0(socks, us, user, text, ts, tokens, acc) ==
    IF acc.idx > Len(tokens) THEN acc
    ELSE
      LET idx == acc.idx
          tok == tokens[idx]
          step == [acc EXCEPT !.idx = idx + 1]
      IN
      IF ~(tok # << >> /\ Head(tok) = CH_AT /\ Len(tok) > 1)
      THEN ScanTokensV0(socks, us, user, text, ts, tokens, step)
      ELSE
        LET raw == mentionRaw(tok)
            next == IF idx + 1 <= Len(tokens) /\ tokens[idx + 1] # << >>
                    THEN toLowerCase(tokens[idx + 1]) ELSE << >>
            hm == handleMention(socks, us, acc.pm, raw, user.name, text, ts)
        IN
        IF raw = << >> THEN ScanTokensV0(socks, us, user, text, ts, tokens, step)
        ELSE IF next = S_dm
        THEN ScanTokensV0(socks, us, user, text, ts, tokens,
                 [step EXCEPT !.out = @ \o sendDmInvite(socks, us, raw, user.name)])
        ELSE ScanTokensV0(socks, us, user, text, ts, tokens,
                 [step EXCEPT !.pm = hm.pm, !.out = @ \o hm.out,
                              !.log = Append(@, hm.log)])

\* io.on("connection") of part_000
ConnectV0(c) ==
    /\ c \notin sockets
    /\ sockets' = sockets \cup {c}
    /\ users' = Put(users, c, [name |-> S_Guest, role |-> "user",
                               blocked |-> {}, status |-> "online"])
    /\ Obs(Last("connection", c, "ok", 0, S_Guest, << >>),
           broadcastUsers(sockets'))
    /\ UNCHANGED <<messages, pendingMentions, pinned, reactions, dmRooms, rooms,
                   badwords, dmReactions, timers, nextId>>

\* socket.on("join") of part_000: the history, then the mentions stored under
\* the exact name
JoinV0(c, name, role) ==
    /\ c \in sockets /\ c \in DOMAIN users
    /\ LET old == users[c]
           me == [name |-> IF name # << >> THEN name ELSE old.name,
                  role |-> IF role # "" THEN role ELSE old.role,
                  blocked |-> old.blocked,
                  status |-> "online"]
           found == Lookup(pendingMentions, me.name)
           hist0 == safeEmit(sockets, c, "chat-history", 0, Ids(messages))
       IN
       /\ users' = [users EXCEPT ![c] = me]
       /\ IF found = "own" /\ Len(pendingMentions[me.name]) > 0
          THEN /\ pendingMentions' = Del(pendingMentions, me.name)
               /\ Obs(Last("join", c, "ok", 0, me.name, << >>),
                      hist0
                         \o [i \in 1..Len(pendingMentions[me.name]) |->
                               Ev(c, "mention", 0, <<pendingMentions[me.name][i].ts>>)]
                         \o broadcastUsers(sockets))
          ELSE IF found = "inherited" /\ InheritedLengthTruthy(me.name)
          THEN /\ pendingMentions' = pendingMentions
               /\ Obs(Last("join", c, "thrown", 0, me.name, << >>),
                      hist0)
          ELSE /\ pendingMentions' = pendingMentions
               /\ Obs(Last("join", c, "ok", 0, me.name, << >>),
                      hist0 \o broadcastUsers(sockets))
    /\ UNCHANGED <<sockets, messages, pinned, reactions, dmRooms, rooms,
                   badwords, dmReactions, timers, nextId>>

\* socket.on("disconnect") of part_000
DisconnectV0(c) == Disconnect(c)

\* socket.on("chat message") of part_000.  The clock has moved on since the
\* message before, so the timestamp of the message is its id.
ChatMessageV0(c, text) ==
    /\ c \in sockets /\ c \in DOMAIN users
    /\ LET user == users[c] IN
       IF trim(text) = << >>
       THEN /\ Obs(Last("chat message", c, "ignored", 0, << >>, << >>),
                   << >>)
            /\ UNCHANGED <<sockets, users, rooms, messages, pendingMentions, nextId>>
       ELSE IF containsBadword(badwords, text)
       THEN \* the notice, then socket.disconnect() runs the disconnect handler
            /\ sockets' = sockets \ {c}
            /\ users' = Del(users, c)
            /\ rooms' = [r \in DOMAIN rooms |-> rooms[r] \ {c}]
            /\ Obs(Last("chat message", c, "kicked", 0, << >>, << >>),
                   safeEmit(sockets, c, "system", 0, << >>) \o broadcastUsers(sockets'))
            /\ UNCHANGED <<messages, pendingMentions, nextId>>
       ELSE
         LET msg == createMsgObj(user, text, nextId)
             acc == ScanTokensV0(sockets, users, user, text, msg.id, splitWs(text),
                                 [idx |-> 1, pm |-> pendingMentions, out |-> << >>,
                                  log |-> << >>])
         IN
         /\ messages' = pushMessage(messages, msg)
         /\ pendingMentions' = acc.pm
         /\ nextId' = nextId + 1
         /\ Obs(Last("chat message", c, "ok", msg.id, << >>, acc.log),
                acc.out \o FanOut(sockets, users, SeqOf(DOMAIN users), user, msg))
         /\ UNCHANGED <<sockets, users, rooms>>
    /\ UNCHANGED <<pinned, reactions, dmRooms, badwords, dmReactions, timers>>

\* ------------------------------------------------------------------------
\* SpecPending: the pending queue at its cap, in server.js and in part_000.
\* Socket 1 keeps its guest name and sends "@Bo!" again and again; socket 2
\* comes and goes, and when it joins as Bo the queue is flushed and the
\* mentions reach it live until it leaves.
\* ------------------------------------------------------------------------
\* ids uuidv4() has handed out when the last public message starts: each
\* message of server.js takes two, and 101 mentions overflow the queue
MaxPendingIds == 203

\* hist.variant: the revision that runs
InitPending ==
    /\ InitProg
    /\ hist \in {[variant |-> "server.js"], [variant |-> "part_000"]}
    /\ watch = {"chat message"}

NextPending ==
    \/ \E c \in {1, 2}, g \in GuestNumbers :
          hist.variant = "server.js" /\ Connect(c, g) /\ hist' = hist
    \/ \E n \in {S_al, S_Bo} :
          hist.variant = "server.js" /\ Join(2, n, "") /\ hist' = hist
    \/ /\ hist.variant = "server.js" /\ nextId <= MaxPendingIds
       /\ ChatMessage(1, S_at_Bo_bang) /\ hist' = hist
    \/ hist.variant = "server.js" /\ Disconnect(2) /\ hist' = hist
    \/ \E c \in {1, 2} : hist.variant = "part_000" /\ ConnectV0(c) /\ hist' = hist
    \/ \E n \in {S_al, S_Bo} :
          hist.variant = "part_000" /\ JoinV0(2, n, "") /\ hist' = hist
    \/ /\ hist.variant = "part_000" /\ nextId <= MaxPendingIds
       /\ ChatMessageV0(1, S_at_Bo_bang) /\ hist' = hist
    \/ hist.variant = "part_000" /\ DisconnectV0(2) /\ hist' = hist

SpecPending == InitPending /\ [][NextPending]_vars

\* C7: no pending queue ever holds more than 100 entries, and a mention that
\* is stored onto a queue of 100 takes the last place while the oldest entry
\* leaves and the others keep their order.
C7_PendingCapDropsOldest ==
    [][/\ \A n \in DOMAIN pendingMentions' : Len(pendingMentions'[n]) <= 100
       /\ (last'.ev = "chat message" /\ Len(last'.log) = 1 /\ last'.log[1].to = {}) =>
             LET n == last'.log[1].key
                 old == IF n \in DOMAIN pendingMentions THEN pendingMentions[n] ELSE << >>
                 new == pendingMentions'[n]
             IN Len(old) = 100 =>
                   /\ Len(new) = 100
                   /\ \A i \in 1..99 : new[i] = old[i + 1]
                   /\ \A i \in 1..100 : new[100] # old[i]
                   /\ new[100].from = users[last'.c].name
      ]_vars

\* a mention was stored onto a queue that held 100 entries
C7_Witness ==
    /\ last.ev = "chat message" /\ Len(last.log) = 1
    /\ last.log[1].queued /\ last.log[1].qlen = 100
    /\ Len(pendingMentions[last.log[1].key]) = 100

\* socket.on("admin-schedule") of part_000: delay is sendTime - Date.now()
AdminScheduleV0(c, text, delay) ==
    /\ c \in sockets /\ c \in DOMAIN users
    /\ IF users[c].role # "admin"
       THEN /\ timers' = timers
            /\ Obs(Last("admin-schedule", c, "denied", 0, << >>, << >>),
                   << >>)
       ELSE IF delay > 0
       THEN /\ timers' = Append(timers, text)
            /\ Obs(Last("admin-schedule", c, "ok", 0, << >>, << >>),
                   << >>)
       ELSE /\ timers' = timers
            /\ Obs(Last("admin-schedule", c, "ignored", 0, << >>, << >>),
                   << >>)
    /\ UNCHANGED <<sockets, users, messages, pendingMentions, pinned, reactions,
                   dmRooms, rooms, badwords, dmReactions, nextId>>

\* the setTimeout callback of admin-schedule: the i-th pending timer is due
TimerFireV0(i) ==
    /\ i \in 1..Len(timers)
    /\ LET sysMsg == [id |-> nextId, name |-> S_System, rawName |-> S_System,
                      text |-> timers[i], role |-> "system"]
       IN /\ messages' = pushMessage(messages, sysMsg)
          /\ Obs(Last("timer", 0, "ok", sysMsg.id, << >>, << >>),
                 ioEmit(sockets, "chat message", sysMsg.id, << >>))
    /\ timers' = SubSeq(timers, 1, i - 1) \o SubSeq(timers, i + 1, Len(timers))
    /\ nextId' = nextId + 1
    /\ UNCHANGED <<sockets, users, pendingMentions, pinned, reactions, dmRooms,
                   rooms, badwords, dmReactions>>

\* ------------------------------------------------------------------------
\* Handlers of src/unnamed/part_001, the revision that keeps room histories
\* ------------------------------------------------------------------------
MAX_DM_HISTORY == 8

\* pushDmMessage on the room's ring (ensureDmRoom gave an absent room << >>)
pushDmMessage(ring, msgObj) ==
    LET pushed == Append(ring, msgObj)
    IN IF Len(pushed) > MAX_DM_HISTORY THEN sliceLast(pushed, MAX_DM_HISTORY) ELSE pushed

\* io.on("connection") of part_001
ConnectV1(c, g) == Connect(c, g)

\* socket.on("dm-message") of part_001: any room name is taken; a name the
\* store inherits (dmRooms is an object literal) makes .push throw
DmMessageV1(c, room, text) ==
    /\ c \in sockets /\ c \in DOMAIN users
    /\ IF room = << >> \/ text = << >>
       THEN /\ Obs(Last("dm-message", c, "ignored", 0, room, << >>),
                   << >>)
            /\ UNCHANGED <<dmRooms, nextId>>
       ELSE IF Lookup(dmRooms, room) = "inherited"
       THEN /\ Obs(Last("dm-message", c, "thrown", nextId, room, << >>),
                   << >>)
            /\ nextId' = nextId + 1
            /\ dmRooms' = dmRooms
       ELSE
         LET payload == [id |-> nextId, from |-> users[c].name, text |-> text]
             ring == IF room \in DOMAIN dmRooms THEN dmRooms[room] ELSE << >>
             members == IF room \in DOMAIN rooms THEN rooms[room] ELSE {}
         IN /\ dmRooms' = Put(dmRooms, room, pushDmMessage(ring, payload))
            /\ nextId' = nextId + 1
            /\ Obs(Last("dm-message", c, "ok", payload.id, room, << >>),
                   EmitEach(sockets, SeqOf(members), "dm-message", payload.id, room))
    /\ UNCHANGED <<sockets, users, messages, pendingMentions, pinned, reactions,
                   rooms, badwords, dmReactions, timers>>

\* socket.on("dm-reaction") of part_001: toggle the sender's name in the
\* room's (msgId, emoji) set and tell the room.  The rooms asked for here are
\* room ids, none of which names a member the stores inherit; an emoji can.
DmReactionV1(c, room, msgId, emoji) ==
    /\ c \in sockets /\ c \in DOMAIN users
    /\ LET rslot == IF room \in DOMAIN dmReactions THEN dmReactions[room] ELSE << >>
           map == IF msgId \in DOMAIN rslot THEN rslot[msgId] ELSE << >>
           emojiSet == IF emoji \in DOMAIN map THEN map[emoji] ELSE {}
           after == Put(map, emoji, Toggle(emojiSet, users[c].name))
           members == IF room \in DOMAIN rooms THEN rooms[room] ELSE {}
           admins == {sid \in DOMAIN users : users[sid].role = "admin"}
       IN
       IF room = << >> \/ msgId = 0 \/ emoji = << >>
       THEN /\ dmReactions' = dmReactions
            /\ Obs(Last("dm-reaction", c, "ignored", msgId, room, << >>), << >>)
       ELSE IF emoji \in ObjectProtoKeys
       THEN /\ dmReactions' = Put(dmReactions, room, Put(rslot, msgId, map))
            /\ Obs(Last("dm-reaction", c, "thrown", msgId, room, << >>), << >>)
       ELSE /\ dmReactions' = Put(dmReactions, room, Put(rslot, msgId, after))
            /\ Obs(Last("dm-reaction", c, "ok", msgId, room, emoji),
                   EmitEach(sockets, SeqOf(members), "dm-reaction", msgId,
                            reactionSummary(after))
                      \o EmitEach(sockets, SeqOf(admins), "reaction-detail", msgId, after))
    /\ UNCHANGED <<sockets, users, messages, pendingMentions, pinned, reactions,
                   dmRooms, rooms, badwords, timers, nextId>>

\* ------------------------------------------------------------------------
\* The DM handshake (part_002; part_001 also subscribes the admins)
\* ------------------------------------------------------------------------
\* the separator of join("_")
CH_UNDERSCORE == 95

\* a < b as Array.prototype.sort compares strings: by UTF-16 code units
RECURSIVE StrLess(_, _)
StrLess(a, b) ==
    IF b = << >> THEN FALSE
    ELSE IF a = << >> THEN TRUE
    ELSE IF Head(a) # Head(b) THEN Head(a) < Head(b)
    ELSE StrLess(Tail(a), Tail(b))

\* Array.prototype.sort() of an array of strings
RECURSIVE InsertSorted(_, _)
InsertSorted(x, arr) ==
    IF arr = << >> THEN <<x>>
    ELSE IF StrLess(x, Head(arr)) THEN <<x>> \o arr
    ELSE <<Head(arr)>> \o InsertSorted(x, Tail(arr))
RECURSIVE sort(_)
sort(arr) == IF arr = << >> THEN << >> ELSE InsertSorted(Head(arr), sort(Tail(arr)))

\* Array.prototype.join(sep)
RECURSIVE join(_, _)
join(arr, sep) ==
    IF arr = << >> THEN << >>
    ELSE IF Len(arr) = 1 THEN Head(arr)
    ELSE Head(arr) \o <<sep>> \o join(Tail(arr), sep)

\* the room id without the sort: "dm", then the names as they come
roomIdUnsorted(fromName, targetName) == join(<<S_dm, fromName, targetName>>, CH_UNDERSCORE)
\* ["dm", fromName, target.name].sort().join("_")
roomId(fromName, targetName) == join(sort(<<S_dm, fromName, targetName>>), CH_UNDERSCORE)

\* socket.on("dm-invite") of part_002
DmInviteV2(c, toName) ==
    /\ c \in sockets /\ c \in DOMAIN users
    /\ IF toName = << >>
       THEN Obs(Last("dm-invite", c, "ignored", 0, toName, << >>), << >>)
       ELSE Obs(Last("dm-invite", c, "ok", 0, toName, << >>),
                EmitEach(sockets, SeqOf(findSocketsByNameInsensitive(users, toName)),
                         "dm-invite", 0, users[c].name))
    /\ UNCHANGED prog

\* the dm-invite handler keeping the invite for a target that is not live
DmInviteQueued(c, toName) ==
    /\ c \in sockets /\ c \in DOMAIN users
    /\ LET sids == findSocketsByNameInsensitive(users, toName)
           lc == toLowerCase(toName)
           queue == IF lc \in DOMAIN pendingMentions THEN pendingMentions[lc] ELSE << >>
           payload == [id |-> 0, from |-> users[c].name, text |-> << >>, rawMsgId |-> 0]
       IN
       IF toName = << >>
       THEN /\ Obs(Last("dm-invite", c, "ignored", 0, toName, << >>), << >>)
            /\ pendingMentions' = pendingMentions
       ELSE /\ Obs(Last("dm-invite", c, "ok", 0, toName, << >>),
                   EmitEach(sockets, SeqOf(sids), "dm-invite", 0, users[c].name))
            /\ pendingMentions' = IF sids = {} /\ lc \notin ObjectProtoKeys
                                  THEN Put(pendingMentions, lc, pushPending(queue, payload))
                                  ELSE pendingMentions
    /\ UNCHANGED <<sockets, users, messages, pinned, reactions, dmRooms, dmReactions,
                   rooms, badwords, timers, nextId>>

\* socket.on("dm-invite") of server.js
DmInvite(c, toName) ==
    /\ c \in sockets /\ c \in DOMAIN users
    /\ IF toName = << >>
       THEN Obs(Last("dm-invite", c, "ignored", 0, toName, << >>), << >>)
       ELSE Obs(Last("dm-invite", c, "ok", 0, toName, << >>),
                EmitEach(sockets, SeqOf(findSocketsByNameInsensitive(users, toName)),
                         "dm-invite", 0, users[c].name))
    /\ UNCHANGED prog

\* the dm-response loop that subscribes the responder alone
RECURSIVE DmResponseLoopAlone(_, _, _, _, _, _, _)
DmResponseLoopAlone(socks, us, sids, c, fromName, accepted, acc) ==
    IF sids = << >> THEN acc
    ELSE
      LET sid == Head(sids)
          room == roomId(fromName, us[c].name)
          before == IF room \in DOMAIN acc.rooms THEN acc.rooms[room] ELSE {}
          members == before \cup ({c} \cap socks) \cup (acc.admins \cap socks)
          ring == IF room \in DOMAIN acc.dmRooms THEN acc.dmRooms[room] ELSE << >>
          data == [room |-> room, users |-> <<fromName, us[c].name>>,
                   history |-> Ids(sliceLast(ring, MAX_DM_HISTORY))]
      IN DmResponseLoopAlone(socks, us, Tail(sids), c, fromName, accepted,
            IF accepted
            THEN [acc EXCEPT !.rooms = Put(@, room, members),
                             !.dmRooms = Put(@, room, ring),
                             !.out = @ \o EmitEach(socks, SeqOf(members), "dm-start", 0, data)]
            ELSE [acc EXCEPT !.out = @ \o safeEmit(socks, sid, "system", 0, << >>)])

\* the body of the dm-response loop for the connections named fromName, in
\* turn: on accept the responder and the connection join the room (with the
\* admins, where the revision adds them), the room's ring is ensured and
\* 'dm-start' goes to the room; on reject the connection gets a notice.
\* acc carries the adapter's rooms, the room rings and the emitted events.
RECURSIVE DmResponseLoop(_, _, _, _, _, _, _)
DmResponseLoop(socks, us, sids, c, fromName, accepted, acc) ==
    IF sids = << >> THEN acc
    ELSE
      LET sid == Head(sids)
          room == roomId(fromName, us[c].name)
          before == IF room \in DOMAIN acc.rooms THEN acc.rooms[room] ELSE {}
          members == before \cup ({c, sid} \cap socks) \cup (acc.admins \cap socks)
          ring == IF room \in DOMAIN acc.dmRooms THEN acc.dmRooms[room] ELSE << >>
          data == [room |-> room, users |-> <<fromName, us[c].name>>,
                   history |-> Ids(sliceLast(ring, MAX_DM_HISTORY))]
      IN DmResponseLoop(socks, us, Tail(sids), c, fromName, accepted,
            IF accepted
            THEN [acc EXCEPT !.rooms = Put(@, room, members),
                             !.dmRooms = Put(@, room, ring),
                             !.out = @ \o EmitEach(socks, SeqOf(members), "dm-start", 0, data)]
            ELSE [acc EXCEPT !.out = @ \o safeEmit(socks, sid, "system", 0, << >>)])

\* socket.on("dm-response"); admins is the set of connections the revision
\* subscribes besides the two parties
DmResponse(c, fromName, accepted, admins) ==
    /\ c \in sockets /\ c \in DOMAIN users
    /\ IF fromName = << >>
       THEN /\ Obs(Last("dm-response", c, "ignored", 0, fromName, <<accepted>>), << >>)
            /\ UNCHANGED <<rooms, dmRooms>>
       ELSE
         LET named == {sid \in DOMAIN users : users[sid].name = fromName}
             acc == DmResponseLoop(sockets, users, SeqOf(named), c, fromName, accepted,
                                   [rooms |-> rooms, dmRooms |-> dmRooms,
                                    out |-> << >>, admins |-> admins])
         IN /\ rooms' = acc.rooms
            /\ dmRooms' = acc.dmRooms
            /\ Obs(Last("dm-response", c,
                        IF named = {} THEN "nobody"
                        ELSE IF accepted THEN "accepted" ELSE "rejected",
                        0, fromName, <<accepted>>),
                   acc.out)
    /\ UNCHANGED <<sockets, users, messages, pendingMentions, pinned, reactions,
                   badwords, dmReactions, timers, nextId>>

\* socket.on("dm-response") of part_002
DmResponseV2(c, fromName, accepted) == DmResponse(c, fromName, accepted, {})
\* socket.on("dm-response") of part_001: every admin joins the room as well
DmResponseV1(c, fromName, accepted) ==
    DmResponse(c, fromName, accepted, {aid \in DOMAIN users : users[aid].role = "admin"})

\* the dm-delete handler of part_001 without its permission test
DmDeleteUncheckedV1(c, room, msgId) ==
    /\ c \in sockets /\ c \in DOMAIN users
    /\ room # << >> /\ msgId # 0 /\ Lookup(dmRooms, room) # "inherited"
    /\ LET arr == IF room \in DOMAIN dmRooms THEN dmRooms[room] ELSE << >>
           hit == \E i \in 1..Len(arr) : arr[i].id = msgId
           members == IF room \in DOMAIN rooms THEN rooms[room] ELSE {}
       IN /\ dmRooms' = IF hit THEN Put(dmRooms, room, SelectSeq(arr, LAMBDA x : x.id # msgId))
                        ELSE dmRooms
          /\ dmReactions' = IF hit /\ room \in DOMAIN dmReactions
                            THEN Put(dmReactions, room, Del(dmReactions[room], msgId))
                            ELSE dmReactions
          /\ Obs(Last("dm-delete", c, "ok", msgId, room, << >>),
                 EmitEach(sockets, SeqOf(members), "dm-delete", msgId, << >>))
    /\ UNCHANGED <<sockets, users, messages, pendingMentions, pinned, reactions,
                   rooms, badwords, timers, nextId>>

\* the dm-delete handler of part_001 without its cleanup of the reactions
DmDeleteKeepReactionsV1(c, room, msgId) ==
    /\ c \in sockets /\ c \in DOMAIN users
    /\ room # << >> /\ msgId # 0 /\ Lookup(dmRooms, room) # "inherited"
    /\ LET arr == IF room \in DOMAIN dmRooms THEN dmRooms[room] ELSE << >>
           hits == {i \in 1..Len(arr) : arr[i].id = msgId}
           members == IF room \in DOMAIN rooms THEN rooms[room] ELSE {}
           allowed == \E i \in hits : users[c].role = "admin" \/ arr[i].from = users[c].name
       IN /\ dmRooms' = IF allowed THEN Put(dmRooms, room, SelectSeq(arr, LAMBDA x : x.id # msgId))
                        ELSE dmRooms
          /\ dmReactions' = dmReactions
          /\ Obs(Last("dm-delete", c, IF hits = {} THEN "miss"
                                      ELSE IF allowed THEN "ok" ELSE "denied",
                      msgId, room, << >>),
                 IF hits = {} \/ allowed
                 THEN EmitEach(sockets, SeqOf(members), "dm-delete", msgId, << >>)
                 ELSE safeEmit(sockets, c, "system", 0, << >>))
    /\ UNCHANGED <<sockets, users, messages, pendingMentions, pinned, reactions,
                   rooms, badwords, timers, nextId>>

\* socket.on("dm-delete") of part_001.  A room name the store inherits
\* (dmRooms is an object literal) yields a member without findIndex: the
\* handler throws before it emits.
DmDeleteV1(c, room, msgId) ==
    /\ c \in sockets /\ c \in DOMAIN users
    /\ LET user == users[c]
           arr == IF room \in DOMAIN dmRooms THEN dmRooms[room] ELSE << >>
           hits == {i \in 1..Len(arr) : arr[i].id = msgId}
           members == IF room \in DOMAIN rooms THEN rooms[room] ELSE {}
       IN
       IF room = << >> \/ msgId = 0
       THEN /\ Obs(Last("dm-delete", c, "ignored", msgId, room, << >>), << >>)
            /\ UNCHANGED <<dmRooms, dmReactions>>
       ELSE IF Lookup(dmRooms, room) = "inherited"
       THEN /\ Obs(Last("dm-delete", c, "thrown", msgId, room, << >>), << >>)
            /\ UNCHANGED <<dmRooms, dmReactions>>
       ELSE IF hits = {}
       THEN /\ Obs(Last("dm-delete", c, "miss", msgId, room, << >>),
                   EmitEach(sockets, SeqOf(members), "dm-delete", msgId, << >>))
            /\ UNCHANGED <<dmRooms, dmReactions>>
       ELSE
         LET m == arr[CHOOSE i \in hits : \A j \in hits : i <= j] IN
         IF user.role = "admin" \/ m.from = user.name
         THEN /\ dmRooms' = Put(dmRooms, room, SelectSeq(arr, LAMBDA x : x.id # msgId))
              /\ dmReactions' =
                    IF room \in DOMAIN dmReactions /\ msgId \in DOMAIN dmReactions[room]
                    THEN Put(dmReactions, room, Del(dmReactions[room], msgId))
                    ELSE dmReactions
              /\ Obs(Last("dm-delete", c, "ok", msgId, room, << >>),
                     EmitEach(sockets, SeqOf(members), "dm-delete", msgId, << >>))
         ELSE /\ Obs(Last("dm-delete", c, "denied", msgId, room, << >>),
                     safeEmit(sockets, c, "system", 0, << >>))
              /\ UNCHANGED <<dmRooms, dmReactions>>
    /\ UNCHANGED <<sockets, users, messages, pendingMentions, pinned, reactions,
                   rooms, badwords, timers, nextId>>

\* ------------------------------------------------------------------------
\* SpecRing: the history rings past their capacity.
\*   server.js: socket 1 sends "hi" and deletes; socket 2 joins as admin or
\*              stays a guest, and deletes or is refused
\*   part_000:  socket 1 sends "hi"; socket 2, once admin, schedules system
\*              messages that the timers append
\*   part_001:  socket 1 sends "hi" to two rooms
\* ------------------------------------------------------------------------
\* ids uuidv4() has handed out when the last message is sent
MaxRingIds == 11
\* scheduled messages waiting at a time
MaxTimers == 1
\* the ids delete requests name: the fifth message, the ninth, and none
DeleteIds == {0, 5, 9}

\* hist.variant: the revision that runs
\* hist.sent:    the ids of the messages appended to the public ring, in order
\* hist.deleted: the ids a delete has removed from the public ring
\* hist.ref:     the ring of the specification: an append to a ring of 8
\*               takes out the oldest, a delete takes out its target
RingHist ==
    LET e == last' IN
    IF (e.ev = "chat message" /\ e.res \in {"ok", "thrown"}) \/ e.ev = "timer"
    THEN [hist EXCEPT !.sent = Append(@, e.id),
                      !.ref = IF Len(@) = 8 THEN Append(Tail(@), e.id)
                              ELSE Append(@, e.id)]
    ELSE IF e.ev = "delete" /\ e.res = "ok"
    THEN [hist EXCEPT !.deleted = @ \cup {e.id},
                      !.ref = SelectSeq(@, LAMBDA id : id # e.id)]
    ELSE hist

InitRing ==
    /\ InitProg
    /\ hist \in {[variant |-> v, sent |-> << >>, deleted |-> {}, ref |-> << >>] :
                    v \in {"server.js", "part_000", "part_001"}}
    /\ watch = {"chat message", "timer", "delete", "dm-message"}

NextRing ==
    \/ \E c \in {1, 2}, g \in GuestNumbers :
          hist.variant = "server.js" /\ Connect(c, g) /\ hist' = RingHist
    \/ hist.variant = "server.js" /\ Join(2, S_al, "admin") /\ hist' = RingHist
    \/ /\ hist.variant = "server.js" /\ nextId <= MaxRingIds
       /\ ChatMessage(1, S_hi) /\ hist' = RingHist
    \/ \E c \in {1, 2}, id \in DeleteIds :
          hist.variant = "server.js" /\ Delete(c, id) /\ hist' = RingHist
    \/ hist.variant = "server.js" /\ Disconnect(2) /\ hist' = RingHist
    \/ \E c \in {1, 2} : hist.variant = "part_000" /\ ConnectV0(c) /\ hist' = RingHist
    \/ hist.variant = "part_000" /\ JoinV0(2, S_al, "admin") /\ hist' = RingHist
    \/ /\ hist.variant = "part_000" /\ nextId <= MaxRingIds
       /\ ChatMessageV0(1, S_hi) /\ hist' = RingHist
    \/ \E delay \in {0, 1} :
          /\ hist.variant = "part_000" /\ Len(timers) < MaxTimers
          /\ AdminScheduleV0(2, S_hi, delay) /\ hist' = RingHist
    \/ \E i \in 1..MaxTimers :
          /\ hist.variant = "part_000" /\ nextId <= MaxRingIds
          /\ TimerFireV0(i) /\ hist' = RingHist
    \/ hist.variant = "part_000" /\ DisconnectV0(2) /\ hist' = RingHist
    \/ \E g \in GuestNumbers :
          hist.variant = "part_001" /\ ConnectV1(1, g) /\ hist' = RingHist
    \/ \E room \in {S_room_al_bo, S_room_bo_cy} :
          /\ hist.variant = "part_001" /\ nextId <= MaxRingIds
          /\ DmMessageV1(1, room, S_hi) /\ hist' = RingHist

SpecRing == InitRing /\ [][NextRing]_vars

\* C5: the public ring and every room's ring hold at most 8 messages after
\* every step, and an append to a ring that holds 8 takes out exactly one
\* entry, the oldest: the other seven stay in order and the new one is last.
C5_RingsBounded ==
    [][/\ Len(messages') <= 8
       /\ \A r \in DOMAIN dmRooms' : Len(dmRooms'[r]) <= 8
       /\ ( /\ \/ last'.ev = "chat message" /\ last'.res = "ok"
               \/ last'.ev = "timer"
            /\ Len(messages) = 8 ) =>
              /\ Len(messages') = 8
              /\ \A i \in 1..7 : messages'[i] = messages[i + 1]
              /\ messages'[8].id = last'.id
       /\ ( /\ last'.ev = "dm-message" /\ last'.res = "ok"
            /\ last'.name \in DOMAIN dmRooms
            /\ Len(dmRooms[last'.name]) = 8 ) =>
              /\ Len(dmRooms'[last'.name]) = 8
              /\ \A i \in 1..7 : dmRooms'[last'.name][i] = dmRooms[last'.name][i + 1]
              /\ dmRooms'[last'.name][8].id = last'.id
              /\ \A r \in DOMAIN dmRooms \ {last'.name} : dmRooms'[r] = dmRooms[r]
      ]_vars

\* a system message of the scheduler is in a full public ring whose oldest
\* entry is gone, or two rooms have a history and one is full and has lost
\* its oldest entry
C5_Witness ==
    \/ /\ Len(messages) = 8 /\ messages[1].id > 1
       /\ \E i \in 1..8 : messages[i].role = "system"
    \/ /\ Cardinality(DOMAIN dmRooms) = 2
       /\ \E r \in DOMAIN dmRooms :
             /\ Len(dmRooms[r]) = 8
             /\ \E i \in 1..(nextId - 1) :
                   /\ i < dmRooms[r][1].id
                   /\ \A q \in DOMAIN dmRooms :
                         \A j \in 1..Len(dmRooms[q]) : dmRooms[q][j].id # i

\* C6: the public ring is the sequence of the appended messages that were
\* neither evicted nor deleted, in the order of their sends: it is the ring
\* of the specification, and while nothing was deleted it is the last
\* min(n, 8) of the n messages sent.
C6_RingIsFifoOfSurvivors ==
    /\ Ids(messages) = hist.ref
    /\ hist.deleted = {} =>
          LET n == Len(hist.sent)
          IN Ids(messages) = SubSeq(hist.sent, IF n > 8 THEN n - 7 ELSE 1, n)

\* nine or more sends and a delete of an inner message after the first
\* eviction: the evicted message has not come back
C6_Witness ==
    /\ hist.variant = "server.js"
    /\ Len(hist.sent) >= 10
    /\ 5 \in hist.deleted
    /\ Len(messages) = 8
    /\ messages[1].id = 3

\* ------------------------------------------------------------------------
\* SpecSnap: the history snapshot of join against the live deliveries
\* (server.js).  Two sockets connect, join, send "hi" and disconnect.
\* ------------------------------------------------------------------------
\* ids uuidv4() has handed out when the last public message starts
MaxSnapIds == 2

\* hist.live:   for each connected socket, the ids of the public messages it
\*              got as 'chat message' events since it connected
\* hist.joined: the connected sockets that have joined
SnapOnConnect(c) == [live |-> Put(hist.live, c, {}), joined |-> hist.joined]
SnapOnJoin(c) == [hist EXCEPT !.joined = @ \cup {c}]
SnapOnSend ==
    [hist EXCEPT !.live = [c \in DOMAIN hist.live |->
                             hist.live[c] \cup {out'[i].id : i \in {j \in 1..Len(out') :
                                                   out'[j].ev = "chat message" /\ out'[j].to = c}}]]
SnapOnDisconnect(c) == [live |-> Del(hist.live, c), joined |-> hist.joined \ {c}]

InitSnap == InitProg /\ hist = [live |-> << >>, joined |-> {}]
                     /\ watch = {"chat message", "join"}

NextSnap ==
    \/ \E c \in {1, 2}, g \in GuestNumbers : Connect(c, g) /\ hist' = SnapOnConnect(c)
    \/ \E c \in {1, 2}, n \in {S_al, S_bo} : Join(c, n, "") /\ hist' = SnapOnJoin(c)
    \/ \E c \in {1, 2} :
          nextId <= MaxSnapIds /\ ChatMessage(c, S_hi) /\ hist' = SnapOnSend
    \/ \E c \in {1, 2} : Disconnect(c) /\ hist' = SnapOnDisconnect(c)

SpecSnap == InitSnap /\ [][NextSnap]_vars

\* the ids of the 'chat-history' snapshot the handler that ran last sent to c
Snapshot(c) ==
    UNION {{out[i].data[k] : k \in 1..Len(out[i].data)} :
              i \in {j \in 1..Len(out) : out[j].ev = "chat-history" /\ out[j].to = c}}

\* C8: no message a connection got live is in the snapshot sent to it at
\* join, and a message appended while a connection that has joined is
\* connected reaches it live (no blocks are set here: every message is
\* visible to everyone).
C8_SnapshotAndLiveExactlyOnce ==
    /\ last.ev = "join" => Snapshot(last.c) \cap hist.live[last.c] = {}
    /\ (last.ev = "chat message" /\ last.res # "ignored") =>
          \A c \in hist.joined : last.id \in hist.live[c]

\* ------------------------------------------------------------------------
\* Handlers of src/unnamed/part_003 (its first server, lines 1-266): a
\* socket has no identity before it joins, the ring keeps 6 messages, a
\* message stores no rawName, and no handler has a try/catch.
\* ------------------------------------------------------------------------
MAX_HISTORY_V3 == 6

hasBadV3(bw, text) == \E w \in bw : Includes(toLowerCase(text), toLowerCase(w))

\* io.on("connection") of part_003: only the handlers are registered
ConnectV3(c) ==
    /\ c \notin sockets
    /\ sockets' = sockets \cup {c}
    /\ Obs(Last("connection", c, "ok", 0, << >>, << >>),
           << >>)
    /\ UNCHANGED <<users, messages, pendingMentions, pinned, reactions, dmRooms,
                   rooms, badwords, dmReactions, timers, nextId>>

\* socket.on("join") of part_003: a new identity with an empty block set
JoinV3(c, name, role) ==
    /\ c \in sockets
    /\ users' = Put(users, c, [name |-> IF name # << >> THEN name ELSE S_Guest,
                               role |-> IF role # "" THEN role ELSE "user",
                               blocked |-> {}, status |-> "online"])
    /\ Obs(Last("join", c, "ok", 0, users'[c].name, << >>),
           safeEmit(sockets, c, "chat-history", 0, Ids(messages))
              \o ioEmit(sockets, "users", 0, << >>))
    /\ UNCHANGED <<sockets, messages, pendingMentions, pinned, reactions, dmRooms,
                   rooms, badwords, dmReactions, timers, nextId>>

\* socket.on("chat message") of part_003 with a string payload
ChatMessageV3(c, text) ==
    /\ c \in sockets
    /\ IF c \notin DOMAIN users
       THEN /\ Obs(Last("chat message", c, "ignored", 0, << >>, << >>),
                   << >>)
            /\ UNCHANGED <<sockets, users, rooms, messages, nextId>>
       ELSE IF hasBadV3(badwords, text)
       THEN \* the notice, then socket.disconnect() runs the disconnect handler
            /\ sockets' = sockets \ {c}
            /\ users' = Del(users, c)
            /\ rooms' = [r \in DOMAIN rooms |-> rooms[r] \ {c}]
            /\ Obs(Last("chat message", c, "kicked", 0, << >>, << >>),
                   safeEmit(sockets, c, "system", 0, << >>)
                      \o ioEmit(sockets', "users", 0, << >>))
            /\ UNCHANGED <<messages, nextId>>
       ELSE
         LET user == users[c]
             msgData == [id |-> nextId,
                         name |-> IF user.role = "admin" THEN AdminLabel(user.name)
                                  ELSE user.name,
                         text |-> text,
                         role |-> user.role]
             pushed == Append(messages, msgData)
         IN
         /\ messages' = IF Len(pushed) > MAX_HISTORY_V3
                        THEN sliceLast(pushed, MAX_HISTORY_V3) ELSE pushed
         /\ nextId' = nextId + 1
         /\ Obs(Last("chat message", c, "ok", msgData.id, user.name, << >>),
                FanOut(sockets, users, SeqOf(DOMAIN users), user, msgData))
         /\ UNCHANGED <<sockets, users, rooms>>
    /\ UNCHANGED <<pendingMentions, pinned, reactions, dmRooms, badwords, dmReactions, timers>>

\* socket.on("delete") of part_003: any socket, joined or not
DeleteV3(c, msgId, room) ==
    /\ c \in sockets
    /\ IF room # << >>
       THEN /\ messages' = messages
            /\ Obs(Last("delete", c, "room", msgId, room, << >>),
                   EmitEach(sockets, SeqOf(IF room \in DOMAIN rooms THEN rooms[room] ELSE {}),
                            "delete", msgId, << >>))
       ELSE /\ messages' = SelectSeq(messages, LAMBDA m : m.id # msgId)
            /\ Obs(Last("delete", c, "ok", msgId, << >>, << >>),
                   ioEmit(sockets, "delete", msgId, << >>))
    /\ UNCHANGED <<sockets, users, pendingMentions, pinned, reactions, dmRooms,
                   rooms, badwords, dmReactions, timers, nextId>>

\* socket.on("disconnect") of part_003
DisconnectV3(c) ==
    /\ c \in sockets
    /\ sockets' = sockets \ {c}
    /\ rooms' = [r \in DOMAIN rooms |-> rooms[r] \ {c}]
    /\ IF c \in DOMAIN users
       THEN /\ users' = Del(users, c)
            /\ Obs(Last("disconnect", c, "ok", 0, << >>, << >>),
                   ioEmit(sockets', "users", 0, << >>))
       ELSE /\ users' = users
            /\ Obs(Last("disconnect", c, "ok", 0, << >>, << >>),
                   << >>)
    /\ UNCHANGED <<messages, pendingMentions, pinned, reactions, dmRooms, badwords, dmReactions,
                   timers, nextId>>

\* ------------------------------------------------------------------------
\* SpecV3: public deletes in part_003.  Two sockets connect, join as al or
\* bo with either role, send "hi", ask for deletes and disconnect.
\* ------------------------------------------------------------------------
\* ids uuidv4() has handed out when the last public message starts
MaxV3Ids == 2

\* hist.author: for every public message sent, the name its author had when
\* it was created
AuthorHist(c) ==
    IF nextId' # nextId /\ Len(messages') > 0 /\ messages'[Len(messages')].id = nextId
    THEN [hist EXCEPT !.author = Put(@, nextId, users[c].name)]
    ELSE hist

InitV3 == InitProg /\ hist = [author |-> << >>] /\ watch = {"chat message", "delete"}

NextV3 ==
    \/ \E c \in {1, 2} : ConnectV3(c) /\ hist' = hist
    \/ \E c \in {1, 2}, n \in {S_al, S_bo}, r \in {"", "admin"} :
          JoinV3(c, n, r) /\ hist' = hist
    \/ \E c \in {1, 2} :
          nextId <= MaxV3Ids /\ ChatMessageV3(c, S_hi) /\ hist' = AuthorHist(c)
    \/ \E c \in {1, 2}, id \in 0..MaxV3Ids, room \in {S_empty, S_room_al_bo} :
          DeleteV3(c, id, room) /\ hist' = hist
    \/ \E c \in {1, 2} : DisconnectV3(c) /\ hist' = hist

SpecV3 == InitV3 /\ [][NextV3]_vars

\* C9: a public delete takes a message out of the ring only when the
\* requester is an admin or the requester's present name is the name the
\* author had when the message was created.
C9_DeleteOnlyByAdminOrAuthor ==
    [][last'.ev = "delete" =>
          \A i \in 1..Len(messages) :
              (\A j \in 1..Len(messages') : messages'[j].id # messages[i].id) =>
                  /\ last'.c \in DOMAIN users
                  /\ \/ users[last'.c].role = "admin"
                     \/ users[last'.c].name = hist.author[messages[i].id]
      ]_vars

\* ------------------------------------------------------------------------
\* SpecDelete: public deletes in server.js.  Socket 1 is a guest or al; it
\* sends "hi", reacts and asks for deletes.  Socket 2 is a guest, al or bo,
\* as admin or not; it pins and asks for deletes.  Both come and go.
\* ------------------------------------------------------------------------
\* ids uuidv4() has handed out when the last public message starts
MaxDeleteIds == 1
\* the reaction emoji, "+"
S_plus == <<43>>

InitDelete == InitProg /\ hist = [author |-> << >>] /\ watch = {"delete"}

NextDelete ==
    \/ \E c \in {1, 2}, g \in GuestNumbers : Connect(c, g) /\ hist' = hist
    \/ Join(1, S_al, "") /\ hist' = hist
    \/ \E n \in {S_al, S_bo}, r \in {"", "admin"} : Join(2, n, r) /\ hist' = hist
    \/ nextId <= MaxDeleteIds /\ ChatMessage(1, S_hi) /\ hist' = AuthorHist(1)
    \/ \E c \in {1, 2}, id \in 0..MaxDeleteIds : Delete(c, id) /\ hist' = hist
    \/ \E id \in 1..MaxDeleteIds : Reaction(1, id, S_plus) /\ hist' = hist
    \/ \E id \in 1..MaxDeleteIds : Pin(2, id) /\ hist' = hist
    \/ \E c \in {1, 2} : Disconnect(c) /\ hist' = hist

SpecDelete == InitDelete /\ [][NextDelete]_vars

\* the delete request handled in this step comes from a connection that is
\* no admin and whose name is not the one the author of the named message had
DeleteByStranger ==
    /\ last'.ev = "delete"
    /\ last'.c \in DOMAIN users
    /\ users[last'.c].role # "admin"
    /\ last'.id \in DOMAIN hist.author
    /\ hist.author[last'.id] # users[last'.c].name
OnlyNotice ==
    /\ out' = <<Ev(last'.c, "system", 0, << >>)>>
    /\ messages' = messages
    /\ reactions' = reactions
    /\ pinned' = pinned

\* C10 (as amended): a public delete of a message that is in the ring,
\* requested by a connection that is neither admin nor its author, yields
\* only a 'system' notice to the requester: no 'delete' event goes out and
\* the ring, the reaction map and the pinned slot stay as they are.
C10_DeniedDeleteOnlyNotice ==
    [][(DeleteByStranger /\ \E i \in 1..Len(messages) : messages[i].id = last'.id)
          => OnlyNotice]_vars

\* a stranger's delete of a message in the ring was refused while the
\* message carries a reaction and a message is pinned
C10_Witness ==
    /\ last.ev = "delete" /\ last.res = "denied"
    /\ last.c \in DOMAIN users /\ users[last.c].role # "admin"
    /\ hist.author[last.id] # users[last.c].name
    /\ pinned # Null
    /\ last.id \in DOMAIN reactions
    /\ out = <<Ev(last.c, "system", 0, << >>)>>

\* C10 (as stated): a public delete requested by a connection that is
\* neither admin nor the author of the message it names yields only a
\* 'system' notice to the requester, whether or not the message is still in
\* the ring.
C10_StrangerDeleteOnlyNotice ==
    [][DeleteByStranger => OnlyNotice]_vars

\* the events of one kind about one message that the last handler emitted
Emitted(ev, id) == {i \in 1..Len(out) : out[i].ev = ev /\ out[i].id = id}
\* every connection gets exactly one event ev about id in the step's emissions
BroadcastNext(ev, id) ==
    /\ \A s \in sockets :
          Cardinality({i \in 1..Len(out') : out'[i] = Ev(s, ev, id, << >>)}) = 1
    /\ Len(out') = Cardinality(sockets)

\* C11: a public delete that names an id that is not in the ring leaves the
\* ring (and the reaction map and the pinned slot) as it is and broadcasts
\* 'delete' for that id to every connection; and after a delete that was
\* broadcast the id is not in the ring, so that a repeated delete is such a
\* miss: it changes nothing and is broadcast again.
C11_MissedDeleteStillBroadcast ==
    [][last'.ev = "delete" =>
          /\ (\A i \in 1..Len(messages) : messages[i].id # last'.id) =>
                 /\ messages' = messages
                 /\ reactions' = reactions
                 /\ pinned' = pinned
                 /\ BroadcastNext("delete", last'.id)
          /\ (\E i \in 1..Len(out') : out'[i].ev = "delete") =>
                 \A j \in 1..Len(messages') : messages'[j].id # last'.id
      ]_vars

\* the delete of a message that was sent and deleted before is repeated
\* while two connections listen and the deleted message is still pinned
C11_Witness ==
    /\ last.ev = "delete" /\ last.res = "miss"
    /\ last.id \in DOMAIN hist.author
    /\ Cardinality(sockets) = 2
    /\ Cardinality(Emitted("delete", last.id)) = 2
    /\ pinned # Null /\ pinned.id = last.id
    /\ messages = << >>

\* ------------------------------------------------------------------------
\* SpecPin: the pinned slot in server.js.  Socket 1 is a guest or al and
\* sends "hi"; socket 2 is a guest or bo, as admin or not, and deletes.
\* Both ask for pins of every id, the ids of no message included, and both
\* come and go.
\* ------------------------------------------------------------------------
\* ids uuidv4() has handed out when the last public message starts
MaxPinIds == 2

\* hist.prev: the id of the message the slot held before the last pin request
InitPin == InitProg /\ hist = [prev |-> 0] /\ watch = {"pin"}

NextPin ==
    \/ \E c \in {1, 2}, g \in GuestNumbers : Connect(c, g) /\ hist' = hist
    \/ Join(1, S_al, "") /\ hist' = hist
    \/ \E r \in {"", "admin"} : Join(2, S_bo, r) /\ hist' = hist
    \/ nextId <= MaxPinIds /\ ChatMessage(1, S_hi) /\ hist' = hist
    \/ \E c \in {1, 2}, id \in 0..(MaxPinIds + 1) : Pin(c, id) /\ hist' = [prev |-> pinned.id]
    \/ \E id \in 1..MaxPinIds : Delete(2, id) /\ hist' = hist
    \/ \E c \in {1, 2} : Disconnect(c) /\ hist' = hist

SpecPin == InitPin /\ [][NextPin]_vars

\* the pin request handled in this step comes from an admin, or from none
PinByAdmin == last'.ev = "pin" /\ users[last'.c].role = "admin"
PinByOther == last'.ev = "pin" /\ users[last'.c].role # "admin"

\* C12: a pin sent by a connection whose role is not admin leaves the pinned
\* slot as it was and emits no 'pinned' event, whatever id it names.
C12_NonAdminPinChangesNothing ==
    [][PinByOther =>
          /\ pinned' = pinned
          /\ \A i \in 1..Len(out') : out'[i].ev # "pinned"
      ]_vars

\* a non-admin asked to pin a message of the ring while another message is
\* pinned, and the slot still holds that other message
C12_Witness ==
    /\ last.ev = "pin" /\ users[last.c].role # "admin"
    /\ pinned # Null /\ pinned.id # last.id
    /\ \E i \in 1..Len(messages) : messages[i].id = last.id
    /\ out = << >>

\* C13 (as amended): a pin sent by an admin that names a message of the
\* public ring overwrites the pinned slot with that message, whatever the
\* slot held, and broadcasts 'pinned' to every connection; an admin's pin
\* that names no message of the ring leaves the slot as it was and emits
\* nothing.  The slot holds one message or none.
C13_AdminPinOverwritesFromRing ==
    [][PinByAdmin =>
          IF \E i \in 1..Len(messages) : messages[i].id = last'.id
          THEN /\ \E i \in 1..Len(messages) : pinned' = messages[i]
               /\ pinned'.id = last'.id
               /\ BroadcastNext("pinned", last'.id)
          ELSE pinned' = pinned /\ out' = << >>
      ]_vars

\* an admin's pin replaced the message pinned earlier by another one
C13_Witness ==
    /\ last.ev = "pin" /\ users[last.c].role = "admin"
    /\ pinned.id = last.id
    /\ hist.prev # 0 /\ hist.prev # last.id
    /\ Cardinality(Emitted("pinned", last.id)) = 2

\* C13 (as stated): a pin sent by an admin that names a message that was
\* sent always overwrites the pinned slot with it and broadcasts 'pinned'.
C13_AdminPinAlwaysOverwrites ==
    [][(PinByAdmin /\ last'.id \in 1..(nextId - 1)) =>
          /\ pinned'.id = last'.id
          /\ BroadcastNext("pinned", last'.id)
      ]_vars

\* ------------------------------------------------------------------------
\* SpecReact: reaction toggles, public in server.js and in a room in
\* part_001.  Socket 1 is a guest or al, socket 2 a guest or bo.  In server.js
\* both toggle public reactions; in part_001 bo accepts a DM from al and both
\* toggle reactions on the room's messages.  Both come and go.
\* ------------------------------------------------------------------------
\* the message ids reactions are sent for
MaxReactIds == 1

\* the emoji map of a message, public (room << >>) or of a room; a message
\* without an entry has the empty map, as reactionSummary takes it
EmojiMap(rs, drs, room, id) ==
    IF room = << >>
    THEN IF id \in DOMAIN rs THEN rs[id] ELSE << >>
    ELSE IF room \in DOMAIN drs /\ id \in DOMAIN drs[room] THEN drs[room][id] ELSE << >>

\* hist: one toggle picked to be followed (the message, the emoji, the
\* reactor and the emoji map of the message before it), until another toggle
\* of the same message is made
NoToggle(variant) ==
    [variant |-> variant, on |-> FALSE, room |-> << >>, id |-> 0, emoji |-> << >>,
     name |-> << >>, before |-> << >>]
ToggleHist(room, id, emoji, c, track) ==
    IF last'.res # "ok" THEN hist
    ELSE IF track
    THEN [variant |-> hist.variant, on |-> TRUE, room |-> room, id |-> id, emoji |-> emoji,
          name |-> users[c].name,
          before |-> EmojiMap(reactions, dmReactions, room, id)]
    ELSE IF hist.on /\ hist.room = room /\ hist.id = id THEN NoToggle(hist.variant)
    ELSE hist

InitReact ==
    /\ InitProg
    /\ hist \in {NoToggle(v) : v \in {"server.js", "part_001"}}
    /\ watch = {"reaction", "dm-reaction"}

NextReact ==
    \/ \E c \in {1, 2}, g \in GuestNumbers : Connect(c, g) /\ hist' = hist
    \/ Join(1, S_al, "") /\ hist' = hist
    \/ Join(2, S_bo, "") /\ hist' = hist
    \/ hist.variant = "part_001" /\ DmResponseV1(2, S_al, TRUE) /\ hist' = hist
    \/ \E c \in {1, 2}, id \in 0..MaxReactIds, e \in {S_empty, S_plus, S_constructor},
          track \in BOOLEAN :
          /\ hist.variant = "server.js"
          /\ Reaction(c, id, e) /\ hist' = ToggleHist(<< >>, id, e, c, track)
    \/ \E c \in {1, 2}, room \in {S_empty, S_room_al_bo}, id \in 0..MaxReactIds,
          e \in {S_empty, S_plus, S_constructor}, track \in BOOLEAN :
          /\ hist.variant = "part_001"
          /\ DmReactionV1(c, room, id, e) /\ hist' = ToggleHist(room, id, e, c, track)
    \/ \E c \in {1, 2} : Disconnect(c) /\ hist' = hist

SpecReact == InitReact /\ [][NextReact]_vars

\* the scope, the emoji and the summary of the toggle made in this step
ToggleRoom == IF last'.ev = "dm-reaction" THEN last'.name ELSE << >>
ToggleEmoji == IF last'.ev = "dm-reaction" THEN last'.log ELSE last'.name
\* this step toggles a reaction, and the toggle before it on the same
\* message was by the same reactor with the same emoji
SecondToggle ==
    /\ last'.ev \in {"reaction", "dm-reaction"} /\ last'.res = "ok"
    /\ hist.on /\ hist.room = ToggleRoom /\ hist.id = last'.id
    /\ hist.emoji = ToggleEmoji
    /\ hist.name = users[last'.c].name

\* C14: two consecutive toggles of one (message, emoji) by one reactor, with
\* no other toggle of that message in between, leave the message's sets of
\* reactor names per emoji, and the summary of counts per emoji, as they
\* were before the first of the two, also when the message had no reaction
\* entry before.
C14_ToggleTwiceRestores ==
    [][SecondToggle =>
          LET before == hist.before
              after == EmojiMap(reactions', dmReactions', ToggleRoom, last'.id)
          IN /\ after = before
             /\ reactionSummary(after) = reactionSummary(before)
      ]_vars

\* ------------------------------------------------------------------------
\* SpecDm: the DM handshake in part_002.  Socket 1 is a guest or al, socket
\* 2 a guest or bo.  Each invites the other (al writes "Bo"), each answers
\* invites of the other's name, accepting or rejecting, whether or not an
\* invite was sent, and both come and go.
\* ------------------------------------------------------------------------
\* the connections of the run
DmSockets == {1, 2}

\* hist.calc: one accepted response picked to be remembered, with the room
\* id it computed.  hist.invited: the pairs <<name, connection>> such that a
\* dm-invite from that name was delivered to the connection and the
\* connection has not answered an invite of that name since.
NoCalc == [on |-> FALSE, from |-> << >>, by |-> << >>, room |-> << >>]
\* the room ids of the 'dm-start' events of this step
RoomsStarted == {out'[i].data.room : i \in {j \in 1..Len(out') : out'[j].ev = "dm-start"}}
InviteHist(c, toName) ==
    [hist EXCEPT !.invited =
        IF toName = << >> THEN @
        ELSE @ \cup {<<users[c].name, r>> : r \in findSocketsByNameInsensitive(users, toName)}]
ResponseHist(c, fromName, track) ==
    [calc |-> IF track /\ RoomsStarted # {}
              THEN [on |-> TRUE, from |-> fromName, by |-> users[c].name,
                    room |-> CHOOSE r \in RoomsStarted : TRUE]
              ELSE hist.calc,
     invited |-> hist.invited \ {<<fromName, c>>}]
LeaveHist(c) == [hist EXCEPT !.invited = {p \in @ : p[2] # c}]

InitDm == InitProg /\ hist = [calc |-> NoCalc, invited |-> {}] /\ watch = {"dm-response"}

NextDm ==
    \/ \E c \in DmSockets, g \in GuestNumbers : Connect(c, g) /\ hist' = hist
    \/ Join(1, S_al, "") /\ hist' = hist
    \/ Join(2, S_bo, "") /\ hist' = hist
    \/ \E t \in {S_empty, S_Bo} : DmInviteV2(1, t) /\ hist' = InviteHist(1, t)
    \/ DmInviteV2(2, S_al) /\ hist' = InviteHist(2, S_al)
    \/ \E f \in {S_empty, S_al}, a \in BOOLEAN, track \in BOOLEAN :
          DmResponseV2(2, f, a) /\ hist' = ResponseHist(2, f, track)
    \/ \E a \in BOOLEAN, track \in BOOLEAN :
          DmResponseV2(1, S_bo, a) /\ hist' = ResponseHist(1, S_bo, track)
    \/ \E c \in DmSockets : Disconnect(c) /\ hist' = LeaveHist(c)

SpecDm == InitDm /\ [][NextDm]_vars

\* C15: the room id of an accept depends only on the unordered pair of
\* fromName and the responder's name: an accept whose pair is the pair of a
\* remembered accept, in the same or in the other order, starts the room of
\* the same id.
C15_RoomIdOfUnorderedPair ==
    [][(last'.ev = "dm-response" /\ hist.calc.on
          /\ {last'.name, users[last'.c].name} = {hist.calc.from, hist.calc.by})
          => \A r \in RoomsStarted : r = hist.calc.room
      ]_vars

\* al accepted an invite from bo after bo had accepted one from al, and the
\* room started is the one started then
C15_Witness ==
    /\ last.ev = "dm-response" /\ last.res = "accepted"
    /\ last.c = 1 /\ last.name = S_bo /\ users[1].name = S_al
    /\ hist.calc.on /\ hist.calc.from = S_al /\ hist.calc.by = S_bo
    /\ \E i \in 1..Len(out) : out[i].ev = "dm-start" /\ out[i].data.room = hist.calc.room

\* "dm_" followed by the two names in sorted order
DmPrefixedId(a, b) ==
    S_dm \o <<CH_UNDERSCORE>>
         \o (IF StrLess(b, a) THEN b \o <<CH_UNDERSCORE>> \o a
                              ELSE a \o <<CH_UNDERSCORE>> \o b)

\* C16: the room id computed on accept is "dm_" followed by the two
\* participant names in sorted order; in particular it begins with "dm_".
C16_RoomIdIsDmThenSortedNames ==
    [][last'.ev = "dm-response" =>
          \A r \in RoomsStarted : r = DmPrefixedId(last'.name, users[last'.c].name)
      ]_vars

\* C17: a room goes live ('dm-start' is emitted and connections are
\* subscribed) only in a step that handles an accepting dm-response whose
\* fromName had an invite delivered to the responder that the responder has
\* not answered yet; a reject answers the invite, so that nothing goes live
\* after it without a new invite.
C17_RoomLiveOnlyAfterInvite ==
    [][(rooms' # rooms \/ RoomsStarted # {}) =>
          \/ /\ last'.ev = "dm-response"
             /\ <<last'.name, last'.c>> \in hist.invited
          \/ /\ RoomsStarted = {}
             /\ \A r \in DOMAIN rooms : r \in DOMAIN rooms' /\ rooms'[r] \subseteq rooms[r]
      ]_vars

\* ------------------------------------------------------------------------
\* SpecRoom: room histories and deletes.  Socket 1 is a guest or al, socket
\* 2 a guest or bo, as admin or not.  In part_001 bo accepts DMs from al,
\* socket 1 writes to the room al_bo_dm and, as al, reacts to the first room
\* message and to an id of no message, and both ask for room deletes; in
\* server.js socket 1 writes and, as al, reacts in public and both ask for
\* public deletes.
\* Both come and go.
\* ------------------------------------------------------------------------
\* ids uuidv4() has handed out when the last message starts
MaxRoomIds == 1

\* hist.cleared: the delete handled last removed a message that had a
\* reaction entry
RingOf(room) == IF room \in DOMAIN dmRooms THEN dmRooms[room] ELSE << >>
HadEntry(room, id) ==
    IF room = << >> THEN id \in DOMAIN reactions
    ELSE room \in DOMAIN dmReactions /\ id \in DOMAIN dmReactions[room]
DeleteHist(room, id) ==
    [hist EXCEPT !.cleared = last'.res = "ok" /\ HadEntry(room, id)]

\* the connection has joined under its name and is a guest no more
Joined(c) == c \in DOMAIN users /\ users[c].name \notin {GuestName(g) : g \in GuestNumbers}

InitRoom ==
    /\ InitProg
    /\ hist \in {[variant |-> v, cleared |-> FALSE] : v \in {"server.js", "part_001"}}
    /\ watch = {"dm-delete", "delete"}

NextRoom ==
    \/ \E c \in {1, 2}, g \in GuestNumbers : Connect(c, g) /\ hist' = hist
    \/ Join(1, S_al, "") /\ hist' = hist
    \/ \E r \in {"", "admin"} : Join(2, S_bo, r) /\ hist' = hist
    \/ hist.variant = "part_001" /\ DmResponseV1(2, S_al, TRUE) /\ hist' = hist
    \/ /\ hist.variant = "part_001" /\ nextId <= MaxRoomIds
       /\ DmMessageV1(1, S_room_al_bo, S_hi) /\ hist' = hist
    \/ \E id \in {1, MaxRoomIds + 1} :
          /\ hist.variant = "part_001" /\ Joined(1)
          /\ DmReactionV1(1, S_room_al_bo, id, S_plus) /\ hist' = hist
    \/ \E c \in {1, 2}, room \in {S_empty, S_room_al_bo}, id \in 0..(MaxRoomIds + 1) :
          /\ hist.variant = "part_001"
          /\ DmDeleteV1(c, room, id) /\ hist' = DeleteHist(room, id)
    \/ /\ hist.variant = "server.js" /\ nextId <= MaxRoomIds
       /\ ChatMessage(1, S_hi) /\ hist' = hist
    \/ \E id \in {1, MaxRoomIds + 1} :
          /\ hist.variant = "server.js" /\ Joined(1)
          /\ Reaction(1, id, S_plus) /\ hist' = hist
    \/ \E c \in {1, 2}, id \in 0..(MaxRoomIds + 1) :
          hist.variant = "server.js" /\ Delete(c, id) /\ hist' = DeleteHist(<< >>, id)
    \/ \E c \in {1, 2} : Disconnect(c) /\ hist' = hist

SpecRoom == InitRoom /\ [][NextRoom]_vars

\* every connection subscribed to the room gets exactly one event ev about id
\* in this step, and nobody else gets anything
ToRoomNext(room, ev, id) ==
    LET members == IF room \in DOMAIN rooms THEN rooms[room] ELSE {} IN
    /\ \A s \in members :
          Cardinality({i \in 1..Len(out') : out'[i] = Ev(s, ev, id, << >>)}) = 1
    /\ Len(out') = Cardinality(members)

C20_DeleteClearsReactions ==
    [][/\ (last'.ev = "delete" /\ messages' # messages) =>
             /\ last'.id \notin DOMAIN reactions'
             /\ DOMAIN reactions' = DOMAIN reactions \ {last'.id}
             /\ \A k \in DOMAIN reactions' : reactions'[k] = reactions[k]
             /\ dmReactions' = dmReactions
       /\ (last'.ev = "dm-delete" /\ dmRooms' # dmRooms) =>
             /\ last'.name \in DOMAIN dmReactions' =>
                    last'.id \notin DOMAIN dmReactions'[last'.name]
             /\ DOMAIN dmReactions' = DOMAIN dmReactions
             /\ \A r \in DOMAIN dmReactions :
                    /\ DOMAIN dmReactions'[r] =
                          DOMAIN dmReactions[r] \ (IF r = last'.name THEN {last'.id} ELSE {})
                    /\ \A k \in DOMAIN dmReactions'[r] : dmReactions'[r][k] = dmReactions[r][k]
             /\ reactions' = reactions
      ]_vars

\* a room delete removed a message that had a reaction entry while another
\* message id of the room keeps its entry
C20_Witness ==
    /\ last.ev = "dm-delete" /\ last.res = "ok" /\ hist.cleared
    /\ last.name \in DOMAIN dmReactions
    /\ last.id \notin DOMAIN dmReactions[last.name]
    /\ \E k \in DOMAIN dmReactions[last.name] : dmReactions[last.name][k][S_plus] # {}

\* ------------------------------------------------------------------------
\* SpecStart: the start of a room, in part_002 and in part_001 (where the
\* admins are subscribed too).  Socket 1 is a guest or al and writes to the
\* room al_bo_dm; socket 2 is a guest or bo, as admin or not, and answers
\* DMs from al, live or not.  Both come and go.
\* ------------------------------------------------------------------------
\* ids uuidv4() has handed out when the last room message starts
MaxStartIds == 2

InitStart ==
    /\ InitProg
    /\ hist \in {[variant |-> v] : v \in {"part_002", "part_001"}}
    /\ watch = {"dm-response"}

NextStart ==
    \/ \E c \in {1, 2}, g \in GuestNumbers : Connect(c, g) /\ hist' = hist
    \/ Join(1, S_al, "") /\ hist' = hist
    \/ \E r \in {"", "admin"} : Join(2, S_bo, r) /\ hist' = hist
    \/ \E f \in {S_empty, S_al}, a \in BOOLEAN :
          hist.variant = "part_002" /\ DmResponseV2(2, f, a) /\ hist' = hist
    \/ \E f \in {S_empty, S_al}, a \in BOOLEAN :
          hist.variant = "part_001" /\ DmResponseV1(2, f, a) /\ hist' = hist
    \/ nextId <= MaxStartIds /\ DmMessageV1(1, S_room_al_bo, S_hi) /\ hist' = hist
    \/ \E c \in {1, 2} : Disconnect(c) /\ hist' = hist

SpecStart == InitStart /\ [][NextStart]_vars

\* this step handles an accepting dm-response with a non-empty fromName
AcceptStep == last'.ev = "dm-response" /\ last'.log = <<TRUE>> /\ last'.name # << >>
\* the live connections that bear the fromName of this step's dm-response
NamedFrom == {sid \in DOMAIN users : users[sid].name = last'.name}
\* after this step the responder and every connection named fromName are in
\* the room, the room's ring exists with the content it had (none if it was
\* not there), and every connection of the room got a 'dm-start' with the
\* room id, the two names and the ring's ids
RoomStarted ==
    LET room == roomId(last'.name, users[last'.c].name)
        data == [room |-> room, users |-> <<last'.name, users[last'.c].name>>,
                 history |-> Ids(RingOf(room))]
    IN /\ room \in DOMAIN rooms'
       /\ last'.c \in rooms'[room]
       /\ NamedFrom \subseteq rooms'[room]
       /\ room \in DOMAIN dmRooms' /\ dmRooms'[room] = RingOf(room)
       /\ \A r \in DOMAIN dmRooms : dmRooms'[r] = dmRooms[r]
       /\ \A s \in rooms'[room] :
             \E i \in 1..Len(out') : out'[i] = Ev(s, "dm-start", 0, data)

\* C18 (as amended): on an accepting dm-response whose non-empty fromName is
\* borne by a live connection, the responder and every live connection named
\* fromName are subscribed to the room, the room's ring exists afterwards
\* (empty if new, otherwise as it was) and 'dm-start' with the room id, the
\* two names and the ring's snapshot reaches every connection of the room;
\* when no live connection bears fromName nothing is subscribed, created or
\* emitted.
C18_AcceptStartsRoomForLiveInviter ==
    [][AcceptStep =>
          IF NamedFrom # {} THEN RoomStarted
          ELSE rooms' = rooms /\ dmRooms' = dmRooms /\ out' = << >>
      ]_vars

\* bo accepted a DM from al when the room already had messages: both are
\* in the room and both got the snapshot of the ring
C18_Witness ==
    /\ last.ev = "dm-response" /\ last.res = "accepted" /\ last.c = 2
    /\ RingOf(S_room_al_bo) # << >>
    /\ S_room_al_bo \in DOMAIN rooms /\ rooms[S_room_al_bo] = {1, 2}
    /\ \A s \in {1, 2} : \E i \in 1..Len(out) :
          /\ out[i].to = s /\ out[i].ev = "dm-start"
          /\ out[i].data.history = Ids(dmRooms[S_room_al_bo])

\* C18 (as stated): on every accepting dm-response with a non-empty
\* fromName the responder is subscribed, the ring exists and 'dm-start'
\* reaches the room.
C18_EveryAcceptStartsRoom ==
    [][AcceptStep => RoomStarted]_vars

\* ------------------------------------------------------------------------
\* SpecDetail: who is told the names behind a reaction (server.js, and the
\* rooms of part_001).  Socket 1 is a guest or al, socket 2 a guest or bo
\* and takes and drops the admin role.  In server.js both toggle public
\* reactions; in part_001 bo accepts a DM from al and both toggle the room's
\* reactions.  Both come and go.
\* Every handler is observed.
\* ------------------------------------------------------------------------
\* the message ids reactions are sent for
MaxDetailIds == 1

InitDetail ==
    /\ InitProg
    /\ hist \in {[variant |-> v] : v \in {"server.js", "part_001"}}
    /\ watch = {"connection", "join", "dm-response", "reaction", "dm-reaction", "disconnect"}

NextDetail ==
    \/ \E c \in {1, 2}, g \in GuestNumbers : Connect(c, g) /\ hist' = hist
    \/ Join(1, S_al, "") /\ hist' = hist
    \/ \E r \in {"", "user", "admin"} : Join(2, S_bo, r) /\ hist' = hist
    \/ hist.variant = "part_001" /\ DmResponseV1(2, S_al, TRUE) /\ hist' = hist
    \/ \E c \in {1, 2}, id \in 0..MaxDetailIds, e \in {S_plus, S_constructor} :
          hist.variant = "server.js" /\ Reaction(c, id, e) /\ hist' = hist
    \/ \E c \in {1, 2}, room \in {S_empty, S_room_al_bo}, id \in 0..MaxDetailIds,
          e \in {S_plus, S_constructor} :
          hist.variant = "part_001" /\ DmReactionV1(c, room, id, e) /\ hist' = hist
    \/ \E c \in {1, 2} : Disconnect(c) /\ hist' = hist

SpecDetail == InitDetail /\ [][NextDetail]_vars

\* the handler that ran last toggled a reaction and broadcast its summary
Toggled == last.ev \in {"reaction", "dm-reaction"} /\ last.res = "ok"
\* the emoji map of the message toggled last
ToggledMap ==
    EmojiMap(reactions, dmReactions,
             IF last.ev = "dm-reaction" THEN last.name ELSE << >>, last.id)

\* C21: a 'reaction-detail' event is emitted only by a reaction toggle and
\* only to connections whose role is admin then; every toggle, public or of
\* a room, that broadcasts a summary sends every live admin the detail (the
\* reactor names per emoji); whatever a connection that is not admin gets
\* from a toggle is the summary event with the counts per emoji.
C21_DetailOnlyToAdmins ==
    /\ \A i \in 1..Len(out) :
          out[i].ev = "reaction-detail" =>
              /\ Toggled
              /\ out[i].to \in DOMAIN users /\ users[out[i].to].role = "admin"
    /\ Toggled =>
          \A sid \in DOMAIN users :
              IF users[sid].role = "admin"
              THEN \E i \in 1..Len(out) :
                      out[i] = Ev(sid, "reaction-detail", last.id, ToggledMap)
              ELSE \A i \in 1..Len(out) :
                      out[i].to = sid =>
                          /\ out[i].ev = last.ev
                          /\ out[i].data = reactionSummary(ToggledMap)

\* a toggle in a room with an admin and another connection live: names are
\* behind the emoji, the admin got them, the other one got the counts
C21_Witness ==
    /\ Toggled /\ last.ev = "dm-reaction"
    /\ \E e \in DOMAIN ToggledMap : ToggledMap[e] # {}
    /\ \E a \in DOMAIN users, b \in DOMAIN users :
          /\ users[a].role = "admin" /\ users[b].role # "admin"
          /\ \E i \in 1..Len(out) : out[i] = Ev(a, "reaction-detail", last.id, ToggledMap)
          /\ \E i \in 1..Len(out) :
                out[i] = Ev(b, "dm-reaction", last.id, reactionSummary(ToggledMap))

\* ------------------------------------------------------------------------
\* SpecInvite: DM invites to live and to absent names (server.js).  Two
\* sockets connect, join as al, bo or Bo, invite bo or Bo with dm-invite or
\* with the public text "@bo dm", send plain texts, and come and go.  No text
\* mentions anybody, so whatever the pending store held would be an invite's.
\* Every handler is observed.
\* ------------------------------------------------------------------------
\* ids uuidv4() hands out before the run ends
MaxInviteIds == 2

\* hist.target: the name the handler that ran last invited (empty: it invited
\*   nobody)
\* hist.lost: the lowercase names invited so far while no connection bore them
NoInvite == [target |-> << >>, lost |-> {}]
Invited(target) ==
    [target |-> target,
     lost |-> hist.lost \cup (IF target # << >> /\ findSocketsByNameInsensitive(users, target) = {}
                              THEN {toLowerCase(target)} ELSE {})]
NotInvited == [hist EXCEPT !.target = << >>]
\* the name a public text invites: the candidate of its first token
InviteOf(text) == IF text = S_at_bo_dm THEN mentionRaw(Head(splitWs(text))) ELSE << >>

InitInvite ==
    /\ InitProg /\ hist = NoInvite
    /\ watch = {"connection", "join", "chat message", "dm-invite", "disconnect"}

NextInvite ==
    \/ \E c \in {1, 2}, g \in GuestNumbers : Connect(c, g) /\ hist' = NotInvited
    \/ \E c \in {1, 2}, n \in {S_al, S_bo, S_Bo} :
          (n = S_al => c = 1) /\ Join(c, n, "") /\ hist' = NotInvited
    \/ \E c \in {1, 2}, t \in {S_hi, S_at_bo_dm} :
          nextId <= MaxInviteIds /\ ChatMessage(c, t) /\ hist' = Invited(InviteOf(t))
    \/ \E c \in {1, 2}, n \in {S_empty, S_bo, S_Bo} :
          DmInvite(c, n) /\ hist' = Invited(n)
    \/ \E c \in {1, 2} : Disconnect(c) /\ hist' = NotInvited

SpecInvite == InitInvite /\ [][NextInvite]_vars

\* the events of an invite or a mention among those emitted in this step
InviteEvents == {i \in 1..Len(out') : out'[i].ev \in {"dm-invite", "mention"}}

\* C22: a DM invite (a dm-invite event, or '@name dm' in a public message)
\* whose target name no live connection bears is lost: the step leaves the
\* pending-mention store and every other store but the public ring alone and
\* emits no 'dm-invite' and no 'mention'; and no later step delivers one for
\* it, a join under that name included: a 'dm-invite' is only ever emitted by
\* the step that handles the invite, to the connections bearing the target
\* name then, and the pending store stays empty.
C22_LostInviteLeavesNothing ==
    [][/\ (hist'.target # << >> /\ findSocketsByNameInsensitive(users, hist'.target) = {}) =>
             /\ InviteEvents = {}
             /\ UNCHANGED <<sockets, users, pendingMentions, pinned, reactions, dmRooms,
                            dmReactions, rooms, badwords, timers>>
       /\ \A i \in InviteEvents :
             /\ out'[i].ev = "dm-invite" /\ hist'.target # << >>
             /\ out'[i].to \in findSocketsByNameInsensitive(users, hist'.target)
       /\ pendingMentions' = << >>
      ]_vars

\* a connection joins under a name whose invite was lost, and gets the
\* history and the roster only
C22_Witness ==
    /\ last.ev = "join" /\ last.res = "ok"
    /\ toLowerCase(last.name) \in hist.lost
    /\ messages # << >>
    /\ \E i \in 1..Len(out) : out[i] = Ev(last.c, "chat-history", 0, Ids(messages))
    /\ \A i \in 1..Len(out) : out[i].ev \in {"chat-history", "users"}

\* ------------------------------------------------------------------------
\* The public message handler of part_002: the @online token
\* ------------------------------------------------------------------------
\* "online", "@online", "@Online!"
S_online == <<111, 110, 108, 105, 110, 101>>
S_at_online == <<64>> \o S_online
S_at_Online_bang == <<64, 79, 110, 108, 105, 110, 101, 33>>

\* \w of a JavaScript regexp
IsWordUnit(ch) ==
    \/ (ch >= 65 /\ ch <= 90)
    \/ (ch >= 97 /\ ch <= 122)
    \/ (ch >= 48 /\ ch <= 57)
    \/ ch = 95
\* /\B@online\b/i.test(text): "@" not preceded by a word character, then
\* "online" in any case, not followed by a word character
testOnline(text) ==
    \E i \in 1..Len(text) :
        /\ text[i] = CH_AT
        /\ i = 1 \/ ~IsWordUnit(text[i - 1])
        /\ i + Len(S_online) <= Len(text)
        /\ toLowerCase(SubSeq(text, i + 1, i + Len(S_online))) = S_online
        /\ i + Len(S_online) = Len(text) \/ ~IsWordUnit(text[i + Len(S_online) + 1])

\* the names of the connections whose status is online, in the order of users
onlineList(us) == [i \in 1..Len(SeqOf(DOMAIN us)) |-> us[SeqOf(DOMAIN us)[i]].name]

\* the tokens.forEach of part_002: as in server.js, but the candidate
\* "online" (in any case) that is no invite is passed over
RECURSIVE ScanTokensV2(_, _, _, _, _, _, _)
ScanTokensV2(socks, us, user, text, msg, tokens, acc) ==
    IF acc.idx > Len(tokens) \/ acc.thrown THEN acc
    ELSE
      LET idx == acc.idx
          tok == tokens[idx]
          step == [acc EXCEPT !.idx = idx + 1]
      IN
      IF ~(tok # << >> /\ Head(tok) = CH_AT /\ Len(tok) > 1)
      THEN ScanTokensV2(socks, us, user, text, msg, tokens, step)
      ELSE
        LET raw == mentionRaw(tok)
            next == IF idx + 1 <= Len(tokens) /\ tokens[idx + 1] # << >>
                    THEN toLowerCase(tokens[idx + 1]) ELSE << >>
            sids == findSocketsByNameInsensitive(us, raw)
            lc == toLowerCase(raw)
            mid == acc.nid
        IN
        IF raw = << >> THEN ScanTokensV2(socks, us, user, text, msg, tokens, step)
        ELSE IF next = S_dm
        THEN ScanTokensV2(socks, us, user, text, msg, tokens,
                 [step EXCEPT !.out = @ \o EmitEach(socks, SeqOf(sids), "dm-invite", 0, user.name)])
        ELSE IF lc = S_online
        THEN ScanTokensV2(socks, us, user, text, msg, tokens, step)
        ELSE IF sids # {}
        THEN ScanTokensV2(socks, us, user, text, msg, tokens,
                 [step EXCEPT !.nid = mid + 1,
                              !.out = @ \o EmitEach(socks, SeqOf(sids), "mention", mid, <<msg.id>>),
                              !.log = Append(@, [raw |-> raw, key |-> lc, id |-> mid, to |-> sids,
                                                 queued |-> FALSE, qlen |-> 0])])
        ELSE IF Lookup(acc.pm, lc) = "inherited"
        THEN \* pendingMentions[lc] is an inherited member: .push is not a function
             [step EXCEPT !.nid = mid + 1, !.thrown = TRUE,
                          !.log = Append(@, [raw |-> raw, key |-> lc, id |-> mid, to |-> {},
                                             queued |-> FALSE, qlen |-> 0])]
        ELSE
          LET queue == IF Lookup(acc.pm, lc) = "own" THEN acc.pm[lc] ELSE << >>
              payload == [id |-> mid, from |-> user.name, text |-> text, rawMsgId |-> msg.id]
          IN ScanTokensV2(socks, us, user, text, msg, tokens,
                 [step EXCEPT !.nid = mid + 1,
                              !.pm = Put(acc.pm, lc, pushPending(queue, payload)),
                              !.log = Append(@, [raw |-> raw, key |-> lc, id |-> mid, to |-> {},
                                                 queued |-> TRUE, qlen |-> Len(queue)])])

\* socket.on("chat message") of part_002 with a string payload
ChatMessageV2(c, text) ==
    /\ c \in sockets /\ c \in DOMAIN users
    /\ LET user == users[c] IN
       IF text = << >> \/ trim(text) = << >>
       THEN /\ Obs(Last("chat message", c, "ignored", 0, << >>, << >>),
                   << >>)
            /\ UNCHANGED <<messages, pendingMentions, nextId>>
       ELSE
         LET roster == IF testOnline(text)
                       THEN safeEmit(sockets, c, "online-list", 0, onlineList(users))
                       ELSE << >>
             msg == createMsgObj(user, sliceText(text), nextId)
             acc == ScanTokensV2(sockets, users, user, text, msg, splitWs(text),
                                 [idx |-> 1, pm |-> pendingMentions, out |-> << >>,
                                  nid |-> nextId + 1, thrown |-> FALSE, log |-> << >>])
         IN
         /\ messages' = pushMessage(messages, msg)
         /\ pendingMentions' = acc.pm
         /\ nextId' = acc.nid
         /\ Obs(Last("chat message", c, IF acc.thrown THEN "thrown" ELSE "ok",
                         msg.id, << >>, acc.log),
                IF acc.thrown THEN roster \o acc.out
                   ELSE roster \o acc.out
                        \o FanOut(sockets, users, SeqOf(DOMAIN users), user, msg))
    /\ UNCHANGED <<sockets, users, pinned, reactions, dmRooms, rooms, badwords, dmReactions, timers>>

\* ------------------------------------------------------------------------
\* SpecOnline: the token @online in public texts, in server.js and in
\* part_002.  Socket 1 is a guest or al, socket 2 a guest or named online;
\* both send "hi", "@online" and "@Online!" and come and go.
\* ------------------------------------------------------------------------
\* ids uuidv4() hands out before the run ends
MaxOnlineIds == 3

InitOnline ==
    /\ InitProg
    /\ hist \in {[variant |-> v, text |-> << >>] : v \in {"server.js", "part_002"}}
    /\ watch = {"join", "chat message"}

NextOnline ==
    \/ \E c \in {1, 2}, g \in GuestNumbers :
          Connect(c, g) /\ hist' = [hist EXCEPT !.text = << >>]
    \/ Join(1, S_al, "") /\ hist' = [hist EXCEPT !.text = << >>]
    \/ Join(2, S_online, "") /\ hist' = [hist EXCEPT !.text = << >>]
    \/ \E c \in {1, 2}, t \in {S_hi, S_at_online, S_at_Online_bang} :
          /\ nextId <= MaxOnlineIds /\ hist.variant = "server.js"
          /\ ChatMessage(c, t) /\ hist' = [hist EXCEPT !.text = t]
    \/ \E c \in {1, 2}, t \in {S_hi, S_at_online, S_at_Online_bang} :
          /\ nextId <= MaxOnlineIds /\ hist.variant = "part_002"
          /\ ChatMessageV2(c, t) /\ hist' = [hist EXCEPT !.text = t]
    \/ \E c \in {1, 2} : Disconnect(c) /\ hist' = [hist EXCEPT !.text = << >>]

SpecOnline == InitOnline /\ [][NextOnline]_vars

\* the events named ev among those the last handler emitted
EventsOf(ev) == {i \in 1..Len(out) : out[i].ev = ev}

\* C23: the token '@online' in a public message is never taken for a person
\* mention: no 'mention' event is delivered to anyone, at the send or at a
\* later join, the pending store gets no entry under "online", and the
\* sender, and nobody else, is sent the online roster.
C23_OnlineNeverMention ==
    /\ EventsOf("mention") = {}
    /\ S_online \notin DOMAIN pendingMentions
    /\ (last.ev = "chat message" /\ hist.text \in {S_at_online, S_at_Online_bang}) =>
          /\ EventsOf("online-list") # {}
          /\ \A i \in EventsOf("online-list") : out[i].to = last.c

\* ------------------------------------------------------------------------
\* SpecBlock: the block sets in server.js.  Two sockets connect, join as al
\* or bo (the second one as admin too, and back), block and unblock al and
\* bo, and come and go.  Every handler is observed.
\* ------------------------------------------------------------------------
\* hist follows one block request, chosen freely, until the next block or
\* unblock: A the name of the requester then, B the name it blocked, late the
\* sockets that have connected since and are still connected
NoFollow == [on |-> FALSE, A |-> << >>, B |-> << >>, late |-> {}]
FollowBlock(c, target, track) ==
    IF track /\ target # << >>
    THEN [on |-> TRUE, A |-> users[c].name, B |-> target, late |-> {}]
    ELSE NoFollow
FollowConnect(c) == IF hist.on THEN [hist EXCEPT !.late = @ \cup {c}] ELSE hist
FollowDisconnect(c) == [hist EXCEPT !.late = @ \ {c}]

InitBlock ==
    /\ InitProg /\ hist = NoFollow
    /\ watch = {"connection", "join", "block", "unblock", "disconnect"}

NextBlock ==
    \/ \E c \in {1, 2}, g \in GuestNumbers : Connect(c, g) /\ hist' = FollowConnect(c)
    \/ \E c \in {1, 2}, n \in {S_al, S_bo}, r \in {"", "user", "admin"} :
          (r # "" => c = 2) /\ Join(c, n, r) /\ hist' = hist
    \/ \E c \in {1, 2}, t \in {S_empty, S_al, S_bo}, track \in BOOLEAN :
          Block(c, t) /\ hist' = FollowBlock(c, t, track)
    \/ \E c \in {1, 2}, t \in {S_al, S_bo} : Unblock(c, t) /\ hist' = NoFollow
    \/ \E c \in {1, 2} : Disconnect(c) /\ hist' = FollowDisconnect(c)

SpecBlock == InitBlock /\ [][NextBlock]_vars

\* this step handles a block request that names a target
BlockStep == last'.ev = "block" /\ last'.res = "ok"

\* C24: when a connection named A blocks name B, its own block set gains B,
\* the block set of every connection live and named B then gains A, and no
\* other block set changes; a connection's block set is empty at connect and
\* a join leaves it as it is, so a connection that connects after the block
\* and joins as B has a block set without A.
C24_ReciprocalOnlyForLive ==
    [][/\ BlockStep =>
             LET c == last'.c
                 A == users[c].name
                 B == last'.name
             IN /\ DOMAIN users' = DOMAIN users
                /\ \A sid \in DOMAIN users :
                      users'[sid].blocked =
                          users[sid].blocked
                             \cup (IF sid = c THEN {B} ELSE {})
                             \cup (IF users[sid].name = B THEN {A} ELSE {})
       /\ last'.ev = "connection" => users'[last'.c].blocked = {}
       /\ last'.ev = "join" => users'[last'.c].blocked = users[last'.c].blocked
       /\ \A sid \in hist'.late : sid \in DOMAIN users' /\ hist'.A \notin users'[sid].blocked
      ]_vars

\* al has blocked bo while a connection named bo was live, and both hold the
\* reciprocal entries; another bo has connected and joined since, and its
\* block set is empty
C24_Witness ==
    /\ hist.on /\ hist.A # hist.B /\ last.ev = "join" /\ last.c \in hist.late
    /\ users[last.c].name = hist.B /\ users[last.c].blocked = {}
    /\ \E a \in DOMAIN users : users[a].name = hist.A /\ hist.B \in users[a].blocked

\* ------------------------------------------------------------------------
\* The block and unblock handlers of the other revisions
\* ------------------------------------------------------------------------
\* socket.on("block") of part_000: an admin's request is dropped, an admin
\* gets no reciprocal entry; a missing target is not tested for
BlockV0(c, target) ==
    /\ c \in sockets /\ c \in DOMAIN users
    /\ IF users[c].role = "admin"
       THEN /\ users' = users
            /\ Obs(Last("block", c, "ignored", 0, target, << >>),
                   << >>)
       ELSE
         LET user == users[c]
             mine == [users EXCEPT ![c].blocked = @ \cup {target}]
             both == [sid \in DOMAIN mine |->
                        IF mine[sid].name = target /\ mine[sid].role # "admin"
                        THEN [mine[sid] EXCEPT !.blocked = @ \cup {user.name}]
                        ELSE mine[sid]]
         IN
         /\ users' = both
         /\ Obs(Last("block", c, "ok", 0, target, << >>),
                safeEmit(sockets, c, "blocklist", 0, << >>) \o broadcastUsers(sockets))
    /\ UNCHANGED <<sockets, messages, pendingMentions, pinned, reactions, dmRooms,
                   rooms, badwords, dmReactions, timers, nextId>>

\* socket.on("unblock") of part_000
UnblockV0(c, target) == Unblock(c, target)

\* socket.on("block") of part_002: a block of one's own name is refused
BlockV2(c, target) ==
    /\ c \in sockets /\ c \in DOMAIN users
    /\ IF target = << >>
       THEN /\ users' = users
            /\ Obs(Last("block", c, "ignored", 0, target, << >>),
                   << >>)
       ELSE IF target = users[c].name
       THEN /\ users' = users
            /\ Obs(Last("block", c, "rejected", 0, target, << >>),
                   safeEmit(sockets, c, "system", 0, << >>))
       ELSE
         LET user == users[c]
             mine == [users EXCEPT ![c].blocked = @ \cup {target}]
             both == [sid \in DOMAIN mine |->
                        IF mine[sid].name = target
                        THEN [mine[sid] EXCEPT !.blocked = @ \cup {user.name}]
                        ELSE mine[sid]]
         IN
         /\ users' = both
         /\ Obs(Last("block", c, "ok", 0, target, << >>),
                safeEmit(sockets, c, "blocklist", 0, << >>) \o broadcastUsers(sockets))
    /\ UNCHANGED <<sockets, messages, pendingMentions, pinned, reactions, dmRooms,
                   rooms, badwords, dmReactions, timers, nextId>>

\* socket.on("unblock") of part_002
UnblockV2(c, target) == Unblock(c, target)

\* socket.on("block") of part_003: as in part_000, for a socket that has
\* joined; only the requester is told
BlockV3(c, target) ==
    /\ c \in sockets
    /\ IF c \notin DOMAIN users \/ users[c].role = "admin"
       THEN /\ users' = users
            /\ Obs(Last("block", c, "ignored", 0, target, << >>),
                   << >>)
       ELSE
         LET user == users[c]
             mine == [users EXCEPT ![c].blocked = @ \cup {target}]
             both == [sid \in DOMAIN mine |->
                        IF mine[sid].name = target /\ mine[sid].role # "admin"
                        THEN [mine[sid] EXCEPT !.blocked = @ \cup {user.name}]
                        ELSE mine[sid]]
         IN
         /\ users' = both
         /\ Obs(Last("block", c, "ok", 0, target, << >>),
                safeEmit(sockets, c, "blocklist", 0, << >>))
    /\ UNCHANGED <<sockets, messages, pendingMentions, pinned, reactions, dmRooms,
                   rooms, badwords, dmReactions, timers, nextId>>

\* socket.on("unblock") of part_003: the requester's own set only
UnblockV3(c, target) ==
    /\ c \in sockets
    /\ IF c \notin DOMAIN users
       THEN /\ users' = users
            /\ Obs(Last("unblock", c, "ignored", 0, target, << >>),
                   << >>)
       ELSE /\ users' = [users EXCEPT ![c].blocked = @ \ {target}]
            /\ Obs(Last("unblock", c, "ok", 0, target, << >>),
                   safeEmit(sockets, c, "blocklist", 0, << >>))
    /\ UNCHANGED <<sockets, messages, pendingMentions, pinned, reactions, dmRooms,
                   rooms, badwords, dmReactions, timers, nextId>>

\* ------------------------------------------------------------------------
\* SpecBlockRules: blocks and unblocks in the four revisions that differ in
\* them: server.js, part_000, part_002 and part_003.  Two sockets connect,
\* join as al or bo (the second one as admin too, and back), block and
\* unblock al and bo, send "hi" and come and go.  Every handler is observed.
\* ------------------------------------------------------------------------
\* ids uuidv4() hands out before the run ends
MaxBlockIds == 1

\* hist.un: the socket and the target of the unblock handled in the step
\* before, if that is what the step before handled
NoUnblock == [c |-> 0, T |-> << >>]
Rules(variant, un) == [variant |-> variant, un |-> un]
Plain == Rules(hist.variant, NoUnblock)
Is(variant) == hist.variant = variant

InitBlockRules ==
    /\ InitProg
    /\ hist \in {Rules(v, NoUnblock) : v \in {"server.js", "part_000", "part_002", "part_003"}}
    /\ watch = {"connection", "join", "block", "unblock", "chat message", "disconnect"}

NextBlockRules ==
    \/ \E c \in {1, 2}, g \in GuestNumbers :
          (Is("server.js") \/ Is("part_002")) /\ Connect(c, g) /\ hist' = Plain
    \/ \E c \in {1, 2} : Is("part_000") /\ ConnectV0(c) /\ hist' = Plain
    \/ \E c \in {1, 2} : Is("part_003") /\ ConnectV3(c) /\ hist' = Plain
    \/ \E c \in {1, 2}, n \in {S_al, S_bo}, r \in {"", "user", "admin"} :
          /\ r # "" => c = 2
          /\ \/ (Is("server.js") \/ Is("part_002")) /\ Join(c, n, r)
             \/ Is("part_000") /\ JoinV0(c, n, r)
             \/ Is("part_003") /\ JoinV3(c, n, r)
          /\ hist' = Plain
    \/ \E c \in {1, 2}, t \in {S_al, S_bo} :
          /\ \/ Is("server.js") /\ Block(c, t)
             \/ Is("part_000") /\ BlockV0(c, t)
             \/ Is("part_002") /\ BlockV2(c, t)
             \/ Is("part_003") /\ BlockV3(c, t)
          /\ hist' = Plain
    \/ \E c \in {1, 2}, t \in {S_al, S_bo} :
          /\ \/ Is("server.js") /\ Unblock(c, t)
             \/ Is("part_000") /\ UnblockV0(c, t)
             \/ Is("part_002") /\ UnblockV2(c, t)
             \/ Is("part_003") /\ UnblockV3(c, t)
          /\ hist' = Rules(hist.variant, IF last'.res = "ok" THEN [c |-> c, T |-> t]
                                                             ELSE NoUnblock)
    \/ \E c \in {1, 2} :
          /\ nextId <= MaxBlockIds
          /\ \/ Is("server.js") /\ ChatMessage(c, S_hi)
             \/ Is("part_000") /\ ChatMessageV0(c, S_hi)
             \/ Is("part_002") /\ ChatMessageV2(c, S_hi)
             \/ Is("part_003") /\ ChatMessageV3(c, S_hi)
          /\ hist' = Plain
    \/ \E c \in {1, 2} :
          /\ \/ (Is("server.js") \/ Is("part_002")) /\ Disconnect(c)
             \/ Is("part_000") /\ DisconnectV0(c)
             \/ Is("part_003") /\ DisconnectV3(c)
          /\ hist' = Plain

SpecBlockRules == InitBlockRules /\ [][NextBlockRules]_vars

\* this step handles a block request of a connection that has an identity
BlockAsked == last'.ev = "block" /\ last'.c \in DOMAIN users

\* C25 (server.js and part_000): a block event never adds an entry to the block set of a connection
\* whose role is admin: the requester's name is added to the set of every
\* live non-admin connection named exactly the target and to the set of no
\* admin, and a block event an admin sends changes no block set.
C25_AdminsNeitherBlockNorAreBlocked ==
    [][(BlockAsked /\ hist.variant \in {"server.js", "part_000"}) =>
          LET c == last'.c
              A == users[c].name
              B == last'.name
          IN /\ DOMAIN users' = DOMAIN users
             /\ \A sid \in DOMAIN users :
                   users[sid].role = "admin" => users'[sid].blocked = users[sid].blocked
             /\ users[c].role = "admin" => users' = users
             /\ users[c].role # "admin" =>
                   \A sid \in DOMAIN users :
                       (users[sid].name = B /\ users[sid].role # "admin")
                           => A \in users'[sid].blocked
      ]_vars

\* this step handles an unblock request and takes the target out
UnblockDone == last'.ev = "unblock" /\ last'.res = "ok"
\* this step fans a public message out, right after an unblock was handled
\* whose requester is still there
SentAfterUnblock ==
    /\ last'.ev = "chat message" /\ last'.res = "ok"
    /\ hist.un.c \in DOMAIN users
\* the public message of this step reaches socket r
GotNext(r) == \E i \in 1..Len(out') : out'[i] = Ev(r, "chat message", last'.id, << >>)

\* C26 (server.js and part_003): after unblock(T) sent by a connection named
\* S, the block set of that connection does not hold T and the block set of
\* no live connection named T holds S, whoever had put it there; and when
\* the next event is a public message of the requester or of a live
\* connection named T, both not admin, the other one gets it.
C26_UnblockClearsBothSides ==
    [][hist.variant \in {"server.js", "part_003"} =>
          /\ UnblockDone =>
                LET c == last'.c
                    S == users'[c].name
                    T == last'.name
                IN /\ T \notin users'[c].blocked
                   /\ \A sid \in DOMAIN users' :
                         users'[sid].name = T => S \notin users'[sid].blocked
          /\ SentAfterUnblock =>
                \A t \in {sid \in DOMAIN users : users[sid].name = hist.un.T} :
                    (users[hist.un.c].role # "admin" /\ users[t].role # "admin") =>
                        /\ last'.c = hist.un.c => GotNext(t)
                        /\ last'.c = t => GotNext(hist.un.c)
      ]_vars

\* C27 (server.js and part_002): a block event whose target is the
\* requester's own display name changes no identity and no block set, and
\* emits one event only: a 'system' notice to the requester.
C27_SelfBlockRejected ==
    [][(BlockAsked /\ hist.variant \in {"server.js", "part_002"}
           /\ last'.name = users[last'.c].name) =>
          /\ users' = users
          /\ out' = safeEmit(sockets, last'.c, "system", 0, << >>)
      ]_vars

\* ------------------------------------------------------------------------
\* SpecJoin: what a join does to the identities, in server.js and in
\* part_000.  Two sockets connect, join with and without a name (al, bo,
\* constructor) and with and without a role, block al and bo, and come and go.
\* ------------------------------------------------------------------------
\* hist.name: the name in the payload of the join handled last
Payload(variant, name) == [variant |-> variant, name |-> name]

InitJoin ==
    /\ InitProg
    /\ hist \in {Payload(v, << >>) : v \in {"server.js", "part_000"}}
    /\ watch = {"join"}

NextJoin ==
    \/ \E c \in {1, 2}, g \in GuestNumbers :
          Is("server.js") /\ Connect(c, g) /\ hist' = Payload(hist.variant, << >>)
    \/ \E c \in {1, 2} :
          Is("part_000") /\ ConnectV0(c) /\ hist' = Payload(hist.variant, << >>)
    \/ \E c \in {1, 2}, n \in {S_empty, S_al, S_bo, S_constructor}, r \in {"", "user", "admin"} :
          /\ (r # "" \/ n = S_constructor) => c = 2
          /\ Is("server.js") /\ Join(c, n, r) /\ hist' = Payload(hist.variant, n)
    \/ \E c \in {1, 2}, n \in {S_empty, S_al, S_bo, S_constructor}, r \in {"", "user", "admin"} :
          /\ (r # "" \/ n = S_constructor) => c = 2
          /\ Is("part_000") /\ JoinV0(c, n, r) /\ hist' = Payload(hist.variant, n)
    \/ \E c \in {1, 2}, t \in {S_al, S_bo} :
          Is("server.js") /\ Block(c, t) /\ hist' = Payload(hist.variant, << >>)
    \/ \E c \in {1, 2}, t \in {S_al, S_bo} :
          Is("part_000") /\ BlockV0(c, t) /\ hist' = Payload(hist.variant, << >>)
    \/ \E c \in {1, 2} : Disconnect(c) /\ hist' = Payload(hist.variant, << >>)

SpecJoin == InitJoin /\ [][NextJoin]_vars

\* C28: a join never changes the connection's block set: for any payload,
\* an empty one included, and however the handler ends, the identity has
\* status online afterwards, the block set it had before, the payload's name
\* when there is one and the name it had otherwise, and the identity of
\* every other connection is what it was.
C28_JoinKeepsBlockSet ==
    [][last'.ev = "join" =>
          LET c == last'.c
          IN /\ DOMAIN users' = DOMAIN users
             /\ users'[c].status = "online"
             /\ users'[c].blocked = users[c].blocked
             /\ users'[c].name = IF hist'.name # << >> THEN hist'.name ELSE users[c].name
             /\ \A sid \in DOMAIN users \ {c} : users'[sid] = users[sid]
      ]_vars

\* a connection that holds a block entry has joined with an empty payload
\* beside another connection, and holds what it held
C28_Witness ==
    /\ last.ev = "join" /\ hist.name = << >>
    /\ users[last.c].blocked # {}
    /\ DOMAIN users \ {last.c} # {}

\* ------------------------------------------------------------------------
\* SpecLeave: disconnects (server.js; part_003 for the disconnect of a
\* connection that has no identity, which server.js cannot reach).  In
\* server.js socket 1 is a guest or al and sends "hi" and "@bo" and reacts,
\* socket 2 is a guest or bo, admin or not, and pins, and both come and go;
\* in part_003 two sockets connect, join or not as al or bo, send "hi" and
\* disconnect.  Every handler is observed.
\* ------------------------------------------------------------------------
\* ids uuidv4() hands out before the run ends
MaxLeaveIds == 2

InitLeave ==
    /\ InitProg
    /\ hist \in {[variant |-> v] : v \in {"server.js", "part_003"}}
    /\ watch = {"connection", "join", "chat message", "reaction", "pin", "disconnect"}

NextLeave ==
    \/ \E c \in {1, 2}, g \in GuestNumbers : Is("server.js") /\ Connect(c, g) /\ hist' = hist
    \/ \E c \in {1, 2} : Is("part_003") /\ ConnectV3(c) /\ hist' = hist
    \/ Is("server.js") /\ Join(1, S_al, "") /\ hist' = hist
    \/ \E r \in {"", "admin"} : Is("server.js") /\ Join(2, S_bo, r) /\ hist' = hist
    \/ \E c \in {1, 2}, n \in {S_al, S_bo} :
          Is("part_003") /\ JoinV3(c, n, "") /\ hist' = hist
    \/ \E t \in {S_hi, S_at_bo} :
          nextId <= MaxLeaveIds /\ Is("server.js") /\ ChatMessage(1, t) /\ hist' = hist
    \/ \E c \in {1, 2} :
          nextId <= MaxLeaveIds /\ Is("part_003") /\ ChatMessageV3(c, S_hi) /\ hist' = hist
    \/ Is("server.js") /\ Reaction(1, 1, S_plus) /\ hist' = hist
    \/ Is("server.js") /\ Pin(2, 1) /\ hist' = hist
    \/ \E c \in {1, 2} : Is("server.js") /\ Disconnect(c) /\ hist' = hist
    \/ \E c \in {1, 2} : Is("part_003") /\ DisconnectV3(c) /\ hist' = hist

SpecLeave == InitLeave /\ [][NextLeave]_vars

\* C29: the disconnect of a registered connection removes that connection's
\* identity and nothing else: every other identity, the rings, the pending
\* mentions, the reactions and the pinned slot stay, and the connection gets
\* none of the 'users' broadcast; the disconnect of a connection that has no
\* identity changes no store and emits nothing.  After every step the
\* registry holds connected sockets only, so every event goes to a connected
\* socket, and in server.js it holds exactly the connected sockets.
C29_DisconnectRemovesExactlyOne ==
    [][/\ last'.ev = "disconnect" =>
             LET c == last'.c
             IN /\ UNCHANGED <<messages, pendingMentions, reactions, pinned, dmRooms,
                               dmReactions, badwords, timers, nextId>>
                /\ c \notin sockets'
                /\ IF c \in DOMAIN users
                   THEN /\ users' = Del(users, c)
                        /\ out' = ioEmit(sockets \ {c}, "users", 0, << >>)
                   ELSE /\ users' = users
                        /\ out' = << >>
       /\ DOMAIN users' \subseteq sockets'
       /\ \A i \in 1..Len(out') : out'[i].to \in sockets'
       /\ \A n \in {S_al, S_bo} : findSocketsByNameInsensitive(users', n) \subseteq sockets'
       /\ Is("server.js") => DOMAIN users' = sockets'
      ]_vars

\* bo, mentioned while away, pinned and reacted to, has left: the other
\* identity and the stores are there, and the others were told
C29_Witness ==
    /\ last.ev = "disconnect" /\ Is("server.js")
    /\ DOMAIN users # {} /\ out # << >>
    /\ messages # << >> /\ pinned # Null
    /\ DOMAIN reactions # {} /\ DOMAIN pendingMentions # {}

\* ------------------------------------------------------------------------
\* The admin events of part_000
\* ------------------------------------------------------------------------
AdminEvents ==
    {"admin-banner", "admin-add-badword", "admin-del-badword", "admin-block-user",
     "admin-watch-dms", "admin-schedule", "admin-dm-message"}

\* An exception that leaves a handler: the listeners are called with nothing
\* to catch it and the file installs no uncaughtException handler, so the
\* Node process ends.  Every connection is closed and every store is gone;
\* the state is that of a process started anew.
ProcessExit(l) ==
    /\ sockets' = {} /\ users' = << >> /\ messages' = << >>
    /\ pendingMentions' = << >> /\ pinned' = Null /\ reactions' = << >>
    /\ dmRooms' = << >> /\ dmReactions' = << >> /\ rooms' = << >>
    /\ badwords' = {} /\ timers' = << >> /\ nextId' = nextId
    /\ Obs(l, << >>)

\* String.prototype.startsWith
startsWith(s, prefix) == Len(s) >= Len(prefix) /\ SubSeq(s, 1, Len(prefix)) = prefix

\* socket.on("admin-banner")
AdminBannerV0(c) ==
    /\ c \in sockets /\ c \in DOMAIN users
    /\ IF users[c].role = "admin"
       THEN Obs(Last("admin-banner", c, "ok", 0, << >>, << >>),
                ioEmit(sockets, "show-banner", 0, << >>))
       ELSE Obs(Last("admin-banner", c, "denied", 0, << >>, << >>), << >>)
    /\ UNCHANGED prog

\* socket.on("admin-add-badword"): a missing word is ""
AdminAddBadwordV0(c, word) ==
    /\ c \in sockets /\ c \in DOMAIN users
    /\ IF users[c].role = "admin"
       THEN /\ badwords' = badwords \cup {toLowerCase(word)}
            /\ Obs(Last("admin-add-badword", c, "ok", 0, word, << >>), << >>)
       ELSE /\ badwords' = badwords
            /\ Obs(Last("admin-add-badword", c, "denied", 0, word, << >>), << >>)
    /\ UNCHANGED <<sockets, users, messages, pendingMentions, pinned, reactions,
                   dmRooms, dmReactions, rooms, timers, nextId>>

\* socket.on("admin-del-badword")
AdminDelBadwordV0(c, word) ==
    /\ c \in sockets /\ c \in DOMAIN users
    /\ IF users[c].role = "admin"
       THEN /\ badwords' = badwords \ {toLowerCase(word)}
            /\ Obs(Last("admin-del-badword", c, "ok", 0, word, << >>), << >>)
       ELSE /\ badwords' = badwords
            /\ Obs(Last("admin-del-badword", c, "denied", 0, word, << >>), << >>)
    /\ UNCHANGED <<sockets, users, messages, pendingMentions, pinned, reactions,
                   dmRooms, dmReactions, rooms, timers, nextId>>

\* socket.on("admin-block-user"): io.to(id).disconnectSockets() closes the
\* socket with that id, whose disconnect handler then runs
AdminBlockUserV0(c, target) ==
    /\ c \in sockets /\ c \in DOMAIN users
    /\ IF users[c].role = "admin" /\ target \in sockets
       THEN /\ sockets' = sockets \ {target}
            /\ rooms' = [r \in DOMAIN rooms |-> rooms[r] \ {target}]
            /\ users' = Del(users, target)
            /\ Obs(Last("admin-block-user", c, "ok", target, << >>, << >>),
                   IF target \in DOMAIN users THEN broadcastUsers(sockets') ELSE << >>)
       ELSE /\ UNCHANGED <<sockets, rooms, users>>
            /\ Obs(Last("admin-block-user", c,
                        IF users[c].role = "admin" THEN "nobody" ELSE "denied",
                        target, << >>, << >>),
                   << >>)
    /\ UNCHANGED <<messages, pendingMentions, pinned, reactions, dmRooms, dmReactions,
                   badwords, timers, nextId>>

\* socket.on("admin-watch-dms"): the adapter's rooms whose name starts "dm_"
AdminWatchDmsV0(c) ==
    /\ c \in sockets /\ c \in DOMAIN users
    /\ IF users[c].role = "admin"
       THEN Obs(Last("admin-watch-dms", c, "ok", 0, << >>, << >>),
                safeEmit(sockets, c, "dm-rooms", 0,
                         {k \in DOMAIN rooms :
                             rooms[k] # {} /\ startsWith(k, S_dm \o <<CH_UNDERSCORE>>)}))
       ELSE Obs(Last("admin-watch-dms", c, "denied", 0, << >>, << >>), << >>)
    /\ UNCHANGED prog

\* the admin-schedule event with any payload: the parameter ({ text, time })
\* is destructured before the handler's try block is entered, so an event
\* sent without a payload throws out of the handler
AdminScheduleEventV0(c, given, text, delay) ==
    IF given
    THEN AdminScheduleV0(c, text, delay)
    ELSE /\ c \in sockets /\ c \in DOMAIN users
         /\ ProcessExit(Last("admin-schedule", c, "exit", 0, << >>, << >>))

\* socket.on("admin-dm-message"): ({ room, text }) is destructured before the
\* try block as well
AdminDmMessageV0(c, given, room, text) ==
    /\ c \in sockets /\ c \in DOMAIN users
    /\ IF ~given
       THEN ProcessExit(Last("admin-dm-message", c, "exit", 0, << >>, << >>))
       ELSE /\ IF users[c].role = "admin"
               THEN /\ nextId' = nextId + 1
                    /\ Obs(Last("admin-dm-message", c, "ok", nextId, room, << >>),
                           EmitEach(sockets,
                                    SeqOf(IF room \in DOMAIN rooms THEN rooms[room] ELSE {}),
                                    "dm-message", nextId, room))
               ELSE /\ nextId' = nextId
                    /\ Obs(Last("admin-dm-message", c, "denied", 0, room, << >>), << >>)
            /\ UNCHANGED <<sockets, users, messages, pendingMentions, pinned, reactions,
                           dmRooms, dmReactions, rooms, badwords, timers>>

\* ------------------------------------------------------------------------
\* SpecAdmin: the admin events of part_000.  Socket 1 is a guest or al,
\* socket 2 a guest or bo, admin or not; both send every admin event, with
\* and without a payload, socket 1 sends "hi", scheduled messages fall due,
\* and both come and go.
\* ------------------------------------------------------------------------
\* ids uuidv4() hands out before the run ends
MaxAdminIds == 2

InitAdmin ==
    /\ InitProg /\ hist = [variant |-> "part_000"]
    /\ watch = AdminEvents

NextAdmin ==
    \/ \E c \in {1, 2} : ConnectV0(c) /\ hist' = hist
    \/ JoinV0(1, S_al, "") /\ hist' = hist
    \/ \E r \in {"", "user", "admin"} : JoinV0(2, S_bo, r) /\ hist' = hist
    \/ nextId <= MaxAdminIds /\ ChatMessageV0(1, S_hi) /\ hist' = hist
    \/ \E c \in {1, 2} : AdminBannerV0(c) /\ hist' = hist
    \/ \E c \in {1, 2} : AdminAddBadwordV0(c, S_hi) /\ hist' = hist
    \/ \E c \in {1, 2} : AdminDelBadwordV0(c, S_hi) /\ hist' = hist
    \/ \E c \in {1, 2}, target \in {1, 2} : AdminBlockUserV0(c, target) /\ hist' = hist
    \/ \E c \in {1, 2} : AdminWatchDmsV0(c) /\ hist' = hist
    \/ \E c \in {1, 2}, given \in BOOLEAN, delay \in {0, 1} :
          /\ Len(timers) < MaxTimers
          /\ AdminScheduleEventV0(c, given, S_hi, delay) /\ hist' = hist
    \/ \E c \in {1, 2}, given \in BOOLEAN :
          /\ nextId <= MaxAdminIds
          /\ AdminDmMessageV0(c, given, S_room_al_bo, S_hi) /\ hist' = hist
    \/ \E i \in 1..MaxTimers : nextId <= MaxAdminIds /\ TimerFireV0(i) /\ hist' = hist
    \/ \E c \in {1, 2} : DisconnectV0(c) /\ hist' = hist

SpecAdmin == InitAdmin /\ [][NextAdmin]_vars

\* C30: each of admin-banner, admin-add-badword, admin-del-badword,
\* admin-block-user, admin-watch-dms, admin-schedule and admin-dm-message,
\* sent by a connection whose role is not admin, is a no-op: no store
\* changes, no event is emitted to any connection, nobody is disconnected and
\* nothing is scheduled.
C30_AdminEventsNoOpForOthers ==
    [][(last'.ev \in AdminEvents /\ last'.c \in DOMAIN users
           /\ users[last'.c].role # "admin") =>
          /\ UNCHANGED prog
          /\ out' = << >>
      ]_vars

\* socket.on("dm-message") of part_002: that of part_001 with the sender's
\* picture in the payload
DmMessageV2(c, room, text) == DmMessageV1(c, room, text)

\* ------------------------------------------------------------------------
\* SpecOrder: the order of delivery.  Node runs one handler at a time and a
\* handler emits before it returns; the transport delivers the events of one
\* connection in the order they were emitted.  hist keeps the messages in
\* the order their handlers ran (sent) and, for each live connection, the
\* messages it was handed, in order (recv).  server.js: al and bo send public
\* messages, al blocks and unblocks bo in between.  part_002: bo accepts
\* al's invitation and both write to the room.
\* ------------------------------------------------------------------------
\* ids uuidv4() has handed out when the last message starts
MaxOrderIds == 2

MessageEvents == {"chat message", "dm-message"}

\* the ids of the messages this step hands to connection r, in order
Handed(r) ==
    LET evs == SelectSeq(out', LAMBDA e : e.to = r /\ e.ev \in MessageEvents)
    IN [i \in 1..Len(evs) |-> evs[i].id]

\* a handler ran: a message that was created is the last one sent, and what
\* was emitted is appended to each recipient's log
OrderHist ==
    [hist EXCEPT
       !.sent = IF last'.ev \in MessageEvents /\ last'.res = "ok"
                THEN Append(@, [id |-> last'.id, from |-> last'.c,
                                scope |-> last'.name])
                ELSE @,
       !.recv = [r \in DOMAIN @ |-> @[r] \o Handed(r)]]
\* a connection that ends takes its log with it
OrderLeave(c) == [hist EXCEPT !.recv[c] = << >>]

InitOrder ==
    /\ InitProg
    /\ hist \in {[variant |-> v, sent |-> << >>, recv |-> [r \in {1, 2} |-> << >>]] :
                    v \in {"server.js", "part_002"}}
    /\ watch = MessageEvents

NextOrder ==
    \/ \E c \in {1, 2} : Connect(c, 0) /\ hist' = hist
    \/ Join(1, S_al, "") /\ hist' = hist
    \/ \E r \in {"", "admin"} : Join(2, S_bo, r) /\ hist' = hist
    \/ \E c \in {1, 2}, t \in {S_hi, S_blank} :
          /\ Is("server.js") /\ nextId <= MaxOrderIds
          /\ ChatMessage(c, t) /\ hist' = OrderHist
    \/ Is("server.js") /\ Block(1, S_bo) /\ hist' = hist
    \/ Is("server.js") /\ Unblock(1, S_bo) /\ hist' = hist
    \/ Is("part_002") /\ DmResponseV2(2, S_al, TRUE) /\ hist' = hist
    \/ \E c \in {1, 2}, room \in {S_empty, S_room_al_bo} :
          /\ Is("part_002") /\ nextId <= MaxOrderIds
          /\ DmMessageV2(c, room, S_hi) /\ hist' = OrderHist
    \/ \E c \in {1, 2} : Disconnect(c) /\ hist' = OrderLeave(c)

SpecOrder == InitOrder /\ [][NextOrder]_vars

\* the place of message id in the order of sending (0 when it is not there)
SentAt(id) ==
    IF \E i \in 1..Len(hist.sent) : hist.sent[i].id = id
    THEN CHOOSE i \in 1..Len(hist.sent) : hist.sent[i].id = id
    ELSE 0

\* C31: two messages of one sender in one scope (the public chat, or one
\* room) that a connection was handed were handed to it in the order in which
\* the sender sent them, and each once.
C31_DeliveredInSendOrder ==
    \A r \in DOMAIN hist.recv :
       \A i, j \in 1..Len(hist.recv[r]) :
          LET a == SentAt(hist.recv[r][i])
              b == SentAt(hist.recv[r][j])
          IN (i < j /\ a # 0 /\ b # 0
                /\ hist.sent[a].from = hist.sent[b].from
                /\ hist.sent[a].scope = hist.sent[b].scope)
             => a < b

\* connection 2 was handed two messages of connection 1 (public, or of the
\* room of al and bo) while connection 1 itself was handed both as well
C31_Witness ==
    /\ Len(hist.recv[2]) >= 2 /\ Len(hist.recv[1]) >= 2
    /\ \E i, j \in 1..Len(hist.recv[2]) :
          /\ i < j
          /\ SentAt(hist.recv[2][i]) # 0 /\ SentAt(hist.recv[2][j]) # 0
          /\ hist.sent[SentAt(hist.recv[2][i])].from = 1
          /\ hist.sent[SentAt(hist.recv[2][j])].from = 1

\* ------------------------------------------------------------------------
\* The room handlers of src/server.js, which keeps no room store
\* ------------------------------------------------------------------------
\* the body of the dm-response loop of server.js: on accept the responder and
\* the connection named fromName join the room and 'dm-start' goes to the
\* room; on reject the connection gets a notice
RECURSIVE DmResponseLoopNoStore(_, _, _, _, _, _, _)
DmResponseLoopNoStore(socks, us, sids, c, fromName, accepted, acc) ==
    IF sids = << >> THEN acc
    ELSE
      LET sid == Head(sids)
          room == roomId(fromName, us[c].name)
          before == IF room \in DOMAIN acc.rooms THEN acc.rooms[room] ELSE {}
          members == before \cup ({c, sid} \cap socks)
          data == [room |-> room, users |-> <<fromName, us[c].name>>]
      IN DmResponseLoopNoStore(socks, us, Tail(sids), c, fromName, accepted,
            IF accepted
            THEN [acc EXCEPT !.rooms = Put(@, room, members),
                             !.out = @ \o EmitEach(socks, SeqOf(members), "dm-start", 0, data)]
            ELSE [acc EXCEPT !.out = @ \o safeEmit(socks, sid, "system", 0, << >>)])

\* socket.on("dm-response") of server.js
DmResponseNoStore(c, fromName, accepted) ==
    /\ c \in sockets /\ c \in DOMAIN users
    /\ IF fromName = << >>
       THEN /\ Obs(Last("dm-response", c, "ignored", 0, fromName, <<accepted>>), << >>)
            /\ rooms' = rooms
       ELSE
         LET named == {sid \in DOMAIN users : users[sid].name = fromName}
             acc == DmResponseLoopNoStore(sockets, users, SeqOf(named), c, fromName, accepted,
                                          [rooms |-> rooms, out |-> << >>])
         IN /\ rooms' = acc.rooms
            /\ Obs(Last("dm-response", c,
                        IF named = {} THEN "nobody"
                        ELSE IF accepted THEN "accepted" ELSE "rejected",
                        0, fromName, <<accepted>>),
                   acc.out)
    /\ UNCHANGED <<sockets, users, messages, pendingMentions, pinned, reactions,
                   dmRooms, badwords, dmReactions, timers, nextId>>

\* the dm-message handler without the test of room and text
DmMessageUnchecked(c, room, text) ==
    /\ c \in sockets /\ c \in DOMAIN users
    /\ nextId' = nextId + 1
    /\ Obs(Last("dm-message", c, "ok", nextId, room, << >>),
           EmitEach(sockets, SeqOf(IF room \in DOMAIN rooms THEN rooms[room] ELSE {}),
                    "dm-message", nextId, room))
    /\ UNCHANGED <<sockets, users, messages, pendingMentions, pinned, reactions,
                   dmRooms, dmReactions, rooms, badwords, timers>>

\* socket.on("dm-message") of server.js: the message goes to the room and is
\* not kept; an empty room or text is a missing (falsy) field
DmMessage(c, room, text) ==
    /\ c \in sockets /\ c \in DOMAIN users
    /\ IF room = << >> \/ text = << >>
       THEN /\ nextId' = nextId
            /\ Obs(Last("dm-message", c, "ignored", 0, room, << >>), << >>)
       ELSE /\ nextId' = nextId + 1
            /\ Obs(Last("dm-message", c, "ok", nextId, room, << >>),
                   EmitEach(sockets, SeqOf(IF room \in DOMAIN rooms THEN rooms[room] ELSE {}),
                            "dm-message", nextId, room))
    /\ UNCHANGED <<sockets, users, messages, pendingMentions, pinned, reactions,
                   dmRooms, dmReactions, rooms, badwords, timers>>

\* ------------------------------------------------------------------------
\* SpecIgnore: events with and without their required fields (server.js).
\* al and bo join, bo accepts al's invitation, and al sends chat messages,
\* blocks, reactions, room messages and invitations, each with every field
\* present and with each field missing.  hist says which event was sent last
\* and whether a required field of it was missing.
\* ------------------------------------------------------------------------
\* ids uuidv4() has handed out when the last message starts
MaxIgnoreIds == 1

Sent0 == [ev |-> "-", lacking |-> FALSE]
SentEvent(ev, lacking) == [ev |-> ev, lacking |-> lacking]

InitIgnore ==
    /\ InitProg /\ hist = Sent0
    /\ watch = {"chat message", "block", "reaction", "dm-message", "dm-invite"}

NextIgnore ==
    \/ \E c \in {1, 2} : Connect(c, 0) /\ hist' = Sent0
    \/ Join(1, S_al, "") /\ hist' = Sent0
    \/ Join(2, S_bo, "") /\ hist' = Sent0
    \/ DmResponseNoStore(2, S_al, TRUE) /\ hist' = Sent0
    \/ \E t \in {S_empty, S_blank, S_hi} :
          /\ nextId <= MaxIgnoreIds \/ trim(t) = << >>
          /\ ChatMessage(1, t)
          /\ hist' = SentEvent("chat message", t = << >> \/ trim(t) = << >>)
    \/ \E t \in {S_empty, S_bo} :
          Block(1, t) /\ hist' = SentEvent("block", t = << >>)
    \/ \E id \in {0, 1}, e \in {S_empty, S_plus} :
          Reaction(1, id, e) /\ hist' = SentEvent("reaction", id = 0 \/ e = << >>)
    \/ \E room \in {S_empty, S_room_al_bo}, t \in {S_empty, S_hi} :
          /\ nextId <= MaxIgnoreIds \/ room = << >> \/ t = << >>
          /\ DmMessage(1, room, t)
          /\ hist' = SentEvent("dm-message", room = << >> \/ t = << >>)
    \/ \E t \in {S_empty, S_bo} :
          DmInvite(1, t) /\ hist' = SentEvent("dm-invite", t = << >>)
    \/ \E c \in {1, 2} : Disconnect(c) /\ hist' = Sent0

SpecIgnore == InitIgnore /\ [][NextIgnore]_vars

C32_WitnessOf(ev) ==
    /\ hist.ev = ev /\ hist.lacking /\ last.ev = ev
    /\ Len(messages) > 0 /\ S_room_al_bo \in DOMAIN rooms /\ rooms[S_room_al_bo] = {1, 2}
StringPayload(text) == [kind |-> "string", text |-> text]
NullPayload == [kind |-> "null", text |-> << >>]

\* socket.on("chat message") of server.js: payload.text of null throws
\* inside the try block, before anything was written; the catch logs it
ChatMessageEvent(c, payload) ==
    IF payload.kind = "string"
    THEN ChatMessage(c, payload.text)
    ELSE /\ c \in sockets /\ c \in DOMAIN users
         /\ Obs(Last("chat message", c, "thrown", 0, << >>, << >>), << >>)
         /\ UNCHANGED prog

\* socket.on("chat message") of part_003: without an identity the handler
\* returns; with one, payload.text of null throws and nothing catches it
ChatMessageEventV3(c, payload) ==
    IF payload.kind = "string"
    THEN ChatMessageV3(c, payload.text)
    ELSE /\ c \in sockets
         /\ IF c \in DOMAIN users
            THEN ProcessExit(Last("chat message", c, "exit", 0, << >>, << >>))
            ELSE /\ Obs(Last("chat message", c, "ignored", 0, << >>, << >>), << >>)
                 /\ UNCHANGED prog

\* ------------------------------------------------------------------------
\* SpecFault: handlers that throw.  server.js and part_003: al and bo join
\* and send chat messages: "hi", a mention of the name "constructor", and a
\* null payload.
\* ------------------------------------------------------------------------
\* ids uuidv4() has handed out when the last message starts
MaxFaultIds == 3

FaultPayloads == {StringPayload(S_hi), StringPayload(S_at_constructor), NullPayload}

InitFault ==
    /\ InitProg
    /\ hist \in {[variant |-> v] : v \in {"server.js", "part_003"}}
    /\ watch = {"connection", "join", "chat message", "disconnect"}

NextFault ==
    \/ \E c \in {1, 2} : Is("server.js") /\ Connect(c, 0) /\ hist' = hist
    \/ \E c \in {1, 2} : Is("part_003") /\ ConnectV3(c) /\ hist' = hist
    \/ \E c \in {1, 2}, n \in {S_al, S_bo} :
          Is("server.js") /\ (n = S_al <=> c = 1) /\ Join(c, n, "") /\ hist' = hist
    \/ \E c \in {1, 2}, n \in {S_al, S_bo} :
          Is("part_003") /\ (n = S_al <=> c = 1) /\ JoinV3(c, n, "") /\ hist' = hist
    \/ \E c \in {1, 2}, p \in FaultPayloads :
          /\ Is("server.js") /\ nextId <= MaxFaultIds
          /\ ChatMessageEvent(c, p) /\ hist' = hist
    \/ \E c \in {1, 2}, p \in FaultPayloads :
          /\ Is("part_003") /\ nextId <= MaxFaultIds
          /\ ChatMessageEventV3(c, p) /\ hist' = hist
    \/ \E c \in {1, 2} : Is("server.js") /\ Disconnect(c) /\ hist' = hist
    \/ \E c \in {1, 2} : Is("part_003") /\ DisconnectV3(c) /\ hist' = hist

SpecFault == InitFault /\ [][NextFault]_vars

\* the handler of this step threw
Threw == last'.res \in {"thrown", "exit"}

\* C33: a chat message event whose handler throws is contained in that
\* event: every connection stays connected, the sender stays registered, and
\* the registry, the rings, the pending mentions, the reactions and the
\* pinned message are as they were before the event.
C33_ThrowIsContained ==
    [][(last'.ev = "chat message" /\ Threw) =>
          /\ sockets' = sockets
          /\ users' = users
          /\ messages' = messages /\ dmRooms' = dmRooms
          /\ pendingMentions' = pendingMentions
          /\ reactions' = reactions /\ dmReactions' = dmReactions
          /\ pinned' = pinned
      ]_vars

\* ------------------------------------------------------------------------
\* SpecReplay: the history snapshot under blocks (server.js).  al and bo
\* join (bo as admin too), al and bo send "hi", each blocks and unblocks the
\* other, and both ask for the history and join again.
\* ------------------------------------------------------------------------
\* ids uuidv4() has handed out when the last message starts
MaxReplayIds == 2

InitReplay ==
    /\ InitProg /\ hist = << >>
    /\ watch = {"join", "get-history"}

NextReplay ==
    \/ \E c \in {1, 2} : Connect(c, 0) /\ hist' = hist
    \/ Join(1, S_al, "") /\ hist' = hist
    \/ \E r \in {"", "admin"} : Join(2, S_bo, r) /\ hist' = hist
    \/ \E c \in {1, 2} : nextId <= MaxReplayIds /\ ChatMessage(c, S_hi) /\ hist' = hist
    \/ \E c \in {1, 2}, t \in {S_al, S_bo} : Block(c, t) /\ hist' = hist
    \/ \E c \in {1, 2}, t \in {S_al, S_bo} : Unblock(c, t) /\ hist' = hist
    \/ \E c \in {1, 2} : GetHistory(c) /\ hist' = hist
    \/ \E c \in {1, 2} : Disconnect(c) /\ hist' = hist

SpecReplay == InitReplay /\ [][NextReplay]_vars

\* connection r and the author of message m are in a block relationship in
\* registry us: r blocks the author's name, or a connection of the author's
\* name blocks the name of r
BlockRelation(us, r, m) ==
    \/ m.rawName \in us[r].blocked
    \/ \E a \in DOMAIN us : us[a].name = m.rawName /\ us[r].name \in us[a].blocked

\* the messages of the ring that the snapshot event e lists
Listed(e) == {i \in 1..Len(messages') : \E k \in 1..Len(e.data) : e.data[k] = messages'[i].id}

\* C34: the 'chat-history' snapshot sent to a non-admin connection at join
\* or on get-history lists no message whose non-admin author is in a block
\* relationship with that connection.
C34_HistoryHonoursBlocks ==
    [][\A k \in 1..Len(out') :
          (out'[k].ev = "chat-history" /\ out'[k].to \in DOMAIN users'
             /\ users'[out'[k].to].role # "admin")
          => \A i \in Listed(out'[k]) :
                messages'[i].role # "admin"
                   => ~BlockRelation(users', out'[k].to, messages'[i])
      ]_vars

\* ------------------------------------------------------------------------
\* SpecMentionBlock: mentions under blocks (server.js).  al and bo join (bo
\* as admin too), each blocks and unblocks the other, before joining as
\* well, and each sends "hi" and a mention of bo.
\* ------------------------------------------------------------------------
\* ids uuidv4() has handed out when the last message starts
MaxMentionBlockIds == 2

InitMentionBlock ==
    /\ InitProg /\ hist = << >>
    /\ watch = {"join", "chat message"}

NextMentionBlock ==
    \/ \E c \in {1, 2} : Connect(c, 0) /\ hist' = hist
    \/ Join(1, S_al, "") /\ hist' = hist
    \/ \E r \in {"", "admin"} : Join(2, S_bo, r) /\ hist' = hist
    \/ \E t \in {S_hi, S_at_bo} :
          nextId <= MaxMentionBlockIds /\ ChatMessage(1, t) /\ hist' = hist
    \/ \E c \in {1, 2}, t \in {S_al, S_bo} : Block(c, t) /\ hist' = hist
    \/ \E c \in {1, 2}, t \in {S_al, S_bo} : Unblock(c, t) /\ hist' = hist
    \/ \E c \in {1, 2} : Disconnect(c) /\ hist' = hist

SpecMentionBlock == InitMentionBlock /\ [][NextMentionBlock]_vars

\* the messages of the ring that the mention event e is about (rawMsgId)
MentionedIn(e) == {i \in 1..Len(messages') : <<messages'[i].id>> = e.data}

\* C35: a 'mention' event, live or from the pending queue at join, is not
\* delivered to a non-admin connection that is in a block relationship with
\* the non-admin author of the message it carries.
C35_MentionHonoursBlocks ==
    [][\A k \in 1..Len(out') :
          (out'[k].ev = "mention" /\ out'[k].to \in DOMAIN users'
             /\ users'[out'[k].to].role # "admin")
          => \A i \in MentionedIn(out'[k]) :
                messages'[i].role # "admin"
                   => ~BlockRelation(users', out'[k].to, messages'[i])
      ]_vars

\* socket.on("get-dm-history") of part_001 and part_002: the room's ring
\* goes to whoever asks; ensureDmRoom skips a name the store inherits, whose
\* member has no slice, and the catch ends the handler
GetDmHistory(c, room) ==
    /\ c \in sockets
    /\ IF room = << >>
       THEN /\ dmRooms' = dmRooms
            /\ Obs(Last("get-dm-history", c, "ignored", 0, room, << >>), << >>)
       ELSE IF Lookup(dmRooms, room) = "inherited"
       THEN /\ dmRooms' = dmRooms
            /\ Obs(Last("get-dm-history", c, "thrown", 0, room, << >>), << >>)
       ELSE
         LET ring == IF room \in DOMAIN dmRooms THEN dmRooms[room] ELSE << >>
         IN /\ dmRooms' = Put(dmRooms, room, ring)
            /\ Obs(Last("get-dm-history", c, "ok", 0, room, << >>),
                   safeEmit(sockets, c, "dm-history", 0,
                            [room |-> room,
                             history |-> Ids(sliceLast(ring, MAX_DM_HISTORY))]))
    /\ UNCHANGED <<sockets, users, messages, pendingMentions, pinned, reactions,
                   dmReactions, rooms, badwords, timers, nextId>>

\* ------------------------------------------------------------------------
\* SpecRoomHistory: who is handed the messages of a room (part_002 and
\* part_001).  al and bo join, bo accepts al's invitation, al writes to the
\* room; a third connection, a guest or an admin, only asks for histories.
\* hist.subs has the pairs <<connection, room>> such that an accepting
\* dm-response subscribed the connection to the room since it connected.
\* ------------------------------------------------------------------------
\* ids uuidv4() has handed out when the last room message starts
MaxRoomHistoryIds == 2

\* an accept ran: the members of every room are subscribed
SubsHist ==
    [hist EXCEPT !.subs = @ \cup {p \in sockets' \X DOMAIN rooms' : p[1] \in rooms'[p[2]]}]
SubsLeave(c) == [hist EXCEPT !.subs = {p \in @ : p[1] # c}]

InitRoomHistory ==
    /\ InitProg
    /\ hist \in {[variant |-> v, subs |-> {}] : v \in {"part_002", "part_001"}}
    /\ watch = {"dm-response", "dm-message", "get-dm-history"}

NextRoomHistory ==
    \/ \E c \in {1, 2, 3} : Connect(c, 0) /\ hist' = hist
    \/ Join(1, S_al, "") /\ hist' = hist
    \/ Join(2, S_bo, "") /\ hist' = hist
    \/ \E r \in {"", "admin"} : Join(3, S_empty, r) /\ hist' = hist
    \/ Is("part_002") /\ DmResponseV2(2, S_al, TRUE) /\ hist' = SubsHist
    \/ Is("part_001") /\ DmResponseV1(2, S_al, TRUE) /\ hist' = SubsHist
    \/ /\ nextId <= MaxRoomHistoryIds
       /\ DmMessageV2(1, S_room_al_bo, S_hi) /\ hist' = hist
    \/ \E c \in {2, 3}, room \in {S_empty, S_room_al_bo, S_constructor} :
          GetDmHistory(c, room) /\ hist' = hist
    \/ \E c \in {1, 2, 3} : Disconnect(c) /\ hist' = SubsLeave(c)

SpecRoomHistory == InitRoomHistory /\ [][NextRoomHistory]_vars

\* the room whose messages event e carries, or << >> when it carries none
RoomOf(e) ==
    IF e.ev = "dm-message" THEN e.data
    ELSE IF e.ev \in {"dm-history", "dm-start"} /\ e.data.history # << >> THEN e.data.room
    ELSE << >>

\* C36: the messages of a room, live ('dm-message') or from its ring (the
\* history of 'dm-start' and 'dm-history'), are handed only to connections
\* that an accepting dm-response subscribed to the room.
C36_RoomMessagesOnlyToSubscribed ==
    [][\A k \in 1..Len(out') :
          RoomOf(out'[k]) # << >> => <<out'[k].to, RoomOf(out'[k])>> \in hist'.subs
      ]_vars

\* ------------------------------------------------------------------------
\* SpecSelf: an identity's own name and its block set (server.js and
\* part_002).  Two connections join and join again as al or bo, block and
\* unblock al and bo, send "hi", and come and go.
\* ------------------------------------------------------------------------
\* ids uuidv4() has handed out when the last message starts
MaxSelfIds == 1

InitSelf ==
    /\ InitProg
    /\ hist \in {[variant |-> v] : v \in {"server.js", "part_002"}}
    /\ watch = {"chat message", "block"}

NextSelf ==
    \/ \E c \in {1, 2} : Connect(c, 0) /\ hist' = hist
    \/ \E c \in {1, 2}, n \in {S_al, S_bo} : Join(c, n, "") /\ hist' = hist
    \/ \E c \in {1, 2}, t \in {S_al, S_bo} :
          Is("server.js") /\ Block(c, t) /\ hist' = hist
    \/ \E c \in {1, 2}, t \in {S_al, S_bo} :
          Is("part_002") /\ BlockV2(c, t) /\ hist' = hist
    \/ \E c \in {1, 2}, t \in {S_al, S_bo} : Unblock(c, t) /\ hist' = hist
    \/ \E c \in {1, 2} :
          /\ Is("server.js") /\ nextId <= MaxSelfIds
          /\ ChatMessage(c, S_hi) /\ hist' = hist
    \/ \E c \in {1, 2} :
          /\ Is("part_002") /\ nextId <= MaxSelfIds
          /\ ChatMessageV2(c, S_hi) /\ hist' = hist
    \/ \E c \in {1, 2} : Disconnect(c) /\ hist' = hist

SpecSelf == InitSelf /\ [][NextSelf]_vars

\* no identity has its own name in its block set
NoSelfBlocked(us) == \A c \in DOMAIN us : us[c].name \notin us[c].blocked

\* C37: after any sequence of block, unblock and join events no identity's
\* block set contains the identity's own name, and a non-admin sender is
\* handed the 'chat message' event of its own public message.
C37_NeverBlocksItself ==
    [][/\ NoSelfBlocked(users')
       /\ (last'.ev = "chat message" /\ last'.res = "ok" /\ users[last'.c].role # "admin")
             => \E k \in 1..Len(out') :
                   /\ out'[k].ev = "chat message" /\ out'[k].to = last'.c
                   /\ out'[k].id = last'.id
      ]_vars

\* ------------------------------------------------------------------------
\* SpecGuest: pending mentions and live names (server.js).  Connections get
\* the guest name the random number gives them, join as al or bo, and al
\* sends "hi", a mention of bo and a mention of the guest name.
\* ------------------------------------------------------------------------
\* ids uuidv4() has handed out when the last message starts
MaxGuestIds == 2

\* "@Guest0"
S_at_Guest0 == <<CH_AT>> \o GuestName(0)

InitGuest ==
    /\ InitProg /\ hist = << >>
    /\ watch = {"connection", "join", "chat message"}

NextGuest ==
    \/ \E c \in {1, 2}, g \in GuestNumbers : Connect(c, g) /\ hist' = hist
    \/ Join(1, S_al, "") /\ hist' = hist
    \/ \E n \in {S_bo, S_Bo} : Join(2, n, "") /\ hist' = hist
    \/ \E t \in {S_hi, S_at_bo, S_at_Guest0} :
          nextId <= MaxGuestIds /\ ChatMessage(1, t) /\ hist' = hist
    \/ \E c \in {1, 2} : Disconnect(c) /\ hist' = hist

SpecGuest == InitGuest /\ [][NextGuest]_vars

\* the queue kept for the name of connection c is empty or absent
NothingPendingFor(c) ==
    LET n == toLowerCase(users[c].name)
    IN n \in DOMAIN pendingMentions => pendingMentions[n] = << >>

\* C38: in every reachable state the pending-mention queue kept for the
\* lowercase name of a live connection, joined or only connected, is empty
\* or absent.
C38_NothingPendingForLiveName ==
    \A c \in DOMAIN users : NothingPendingFor(c)

\* ------------------------------------------------------------------------
\* SpecPair: room ids of different pairs of names (part_002).  The join
\* handler takes any string as a name.  Four connections join as "a",
\* "b_c", "a_b" and "c"; "b_c" accepts an invitation of "a" and "c" one of
\* "a_b"; "a" writes to the room it is in, and "a" and "b_c" come and go.
\* hist.calc remembers one accept and the room id it computed.
\* ------------------------------------------------------------------------
\* ids uuidv4() has handed out when the last room message starts
MaxPairIds == 1

\* "a", "b_c", "a_b", "c"
S_a == <<97>>
S_b_c == <<98, CH_UNDERSCORE, 99>>
S_a_b == <<97, CH_UNDERSCORE, 98>>
S_c == <<99>>
\* the name each connection joins with
PairName(c) == <<S_a, S_b_c, S_a_b, S_c>>[c]
\* "a_b_c_dm"
S_room_a_b_c == S_a \o <<CH_UNDERSCORE>> \o S_b_c \o <<CH_UNDERSCORE>> \o S_dm

InitPair ==
    /\ InitProg /\ hist = [calc |-> NoCalc, invited |-> {}]
    /\ watch = {"dm-response", "dm-message"}

NextPair ==
    \/ \E c \in 1..4 : Connect(c, 0) /\ hist' = hist
    \/ \E c \in 1..4 : Join(c, PairName(c), "") /\ hist' = hist
    \/ \E track \in BOOLEAN :
          DmResponseV2(2, S_a, TRUE) /\ hist' = ResponseHist(2, S_a, track)
    \/ \E track \in BOOLEAN :
          DmResponseV2(4, S_a_b, TRUE) /\ hist' = ResponseHist(4, S_a_b, track)
    \/ /\ nextId <= MaxPairIds
       /\ DmMessageV2(1, S_room_a_b_c, S_hi) /\ hist' = hist
    \/ \E c \in {1, 2} : Disconnect(c) /\ hist' = hist

SpecPair == InitPair /\ [][NextPair]_vars

\* C39: two accepts whose unordered pairs of participant names differ never
\* compute the same room id: an accept whose pair is not the pair of a
\* remembered accept starts no room of the remembered id.
C39_RoomIdInjectiveOnPairs ==
    [][(last'.ev = "dm-response" /\ hist.calc.on
          /\ {last'.name, users[last'.c].name} # {hist.calc.from, hist.calc.by})
          => \A r \in RoomsStarted : r # hist.calc.room
      ]_vars

====
